---------------------------- MODULE Spec2Model ----------------------------
(***************************************************************************)
(* Model of the schema-migration engine of corbaltcode/go-libraries        *)
(* (package migrations: verifyMigrations, migrateOne, rollbackOne,         *)
(* Migrate, Rollback, ensureMigrationsTableExists).                        *)
(*                                                                         *)
(* The database is modelled by its committed state: whether the            *)
(* `migration` table exists, the rows of that table (the ledger), the set  *)
(* of schema effects present, and the holder of the table lock.  Every     *)
(* caller is a process that walks through the statements of Migrate or     *)
(* Rollback; what a transaction has done but not yet committed is kept in  *)
(* the process's tx record and reaches the committed state only at         *)
(* tx.Commit().  Every database call may fail.                             *)
(***************************************************************************)
EXTENDS Integers, Sequences, FiniteSets, TLC

(***************************************************************************)
(* Bounds of the model.                                                    *)
(***************************************************************************)
\* Length of the longest declared migration list.
MaxMigrations == 3
\* Largest number of rows handed to the verifier on its own.
MaxRows == 3
\* Number of calls (Migrate or Rollback) one caller makes.
MaxCalls == 3
\* Number of concurrent callers in the concurrent specification.
NumCallers == 2
\* Number of calls each of the concurrent callers makes.
MaxConcurrentCalls == 1
\* Number of calls made on a database whose ledger holds any rows.
MaxSeededCalls == 2

\* Migration names.  Two names are enough for "equal" and "different".
Names == {"a", "b"}

VARIABLES
    migrations,   \* the declared list: Seq of [Name, Reverse]
    tableExists,  \* the `migration` table exists in the current schema
    ledger,       \* committed rows of `migration`: set of [index, name]
    schema,       \* committed schema: the set of effects present
    lockHolder,   \* caller holding LOCK TABLE migration, 0 when free
    callers,      \* the callers that run in this specification
    pc,           \* per caller: the statement it is at
    op,           \* per caller: [name, len, through] of the call in progress
    first,        \* per caller: firstUnappliedIndex of the current step
    tx,           \* per caller: the open transaction's uncommitted work
    result,       \* per caller: the error value the last call returned
    calls,        \* per caller: calls it may still start
    start,        \* per caller: [ledger, schema] when the call started
    step,         \* per caller: [ledger, schema] when the step's tx began
    ran,          \* per caller: steps the current call ran, with their outcome
    fwdCommits,   \* per index: committed apply-one steps
    revCommits,   \* per index: committed rollback-one steps
    query,        \* verifier on its own: the outcome of the SELECT
    verified,     \* verifier on its own: what verifyMigrations returned
    st,           \* SchemaTest: its position, locals and result
    ln,           \* Listen: the call and its goroutine
    sm,           \* StaticMigration.DoMigration: the call and its loop
    history       \* the histories of the calls (ran, counters) are kept

vars == <<migrations, tableExists, ledger, schema, lockHolder, callers, pc, op,
          first, tx, result, calls, start, step, ran, fwdCommits, revCommits,
          query, verified, st, ln, sm, history>>

\* What no step of the engine changes.
inputs == <<migrations, callers, query, verified, st, ln, sm, history>>
dbVars == <<tableExists, ledger, schema, lockHolder>>
engineVars == <<tableExists, ledger, schema, lockHolder, pc, op, first, tx,
                result, calls, start, step, ran, fwdCommits, revCommits>>

Callers == 1..NumCallers
\* Steps one call may run.  A call that runs alone needs at most
\* MaxMigrations of them; concurrent callers can undo each other's steps
\* without end, and the model follows a call this far.
MaxSteps == MaxMigrations + 1
Indices == 0..(MaxMigrations - 1)

(***************************************************************************)
(* Data.                                                                   *)
(***************************************************************************)
\* type NamedMigration struct { Name; Migration; Reverse }.  Reverse is
\* "inverse" when a Reverse migration is declared and "none" when it is nil.
\* Migration is "exact" when every application of it gives the same schema.
NamedMigration ==
    [Name : Names, Migration : {"exact"}, Reverse : {"inverse", "none"}]

\* migrations[i] of the Go slice (0-based).
At(migs, i) == migs[i + 1]

\* A row of the migration table, as selected: ("index", name).
Row(i, n) == [index |-> i, name |-> n]

\* Error values.  kind "nil" is the nil error.
Err(k, i, n, s) == [kind |-> k, index |-> i, name |-> n, stored |-> s]
Nil == Err("nil", -1, "", "")

\* The result of a caller that has not made a call.
NoCall == Err("no call", -1, "", "")

\* The errors with which the engine reports a database call that failed
\* (each call has its own message), as opposed to the errors of the
\* engine's own checks.
DatabaseErrors ==
    {"CheckTable", "CreateTable", "BeginTx", "LockTable", "FetchMigrations",
     "PerformMigration", "RecordMigration", "ReverseMigration", "DeleteRow",
     "Commit"}

\* The return value of verifyMigrations.
Verdict(f, e) == [first |-> f, err |-> e]

(***************************************************************************)
(* verifyMigrations.                                                       *)
(***************************************************************************)
\* One iteration of the loop over the selected rows, after a successful
\* Scan: the error the row causes, or Nil when the row is the expected one.
\* The first two definitions are the loop body without one of its tests.
checkRowNoNameCheck(r, firstUnapplied, migs) ==
    IF r.index < firstUnapplied
    THEN Err("NegativeOrDuplicate", r.index, "", "")
    ELSE IF r.index >= Len(migs)
    THEN Err("NoSuchMigration", r.index, "", r.name)
    ELSE IF r.index > firstUnapplied
    THEN Err("Skipped", firstUnapplied, At(migs, firstUnapplied).Name, "")
    ELSE Nil

checkRowNoSkipCheck(r, firstUnapplied, migs) ==
    IF r.index < firstUnapplied
    THEN Err("NegativeOrDuplicate", r.index, "", "")
    ELSE IF r.index >= Len(migs)
    THEN Err("NoSuchMigration", r.index, "", r.name)
    ELSE IF r.name # At(migs, firstUnapplied).Name
    THEN Err("NameMismatch", r.index, At(migs, firstUnapplied).Name, r.name)
    ELSE Nil

\* Without the test against len(migrations) the access
\* migrations[firstUnappliedMigrationIndex] panics past the end of the list.
checkRowNoBoundsCheck(r, firstUnapplied, migs) ==
    IF r.index < firstUnapplied
    THEN Err("NegativeOrDuplicate", r.index, "", "")
    ELSE IF firstUnapplied >= Len(migs)
    THEN Err("IndexOutOfRange", firstUnapplied, "", "")
    ELSE IF r.index > firstUnapplied
    THEN Err("Skipped", firstUnapplied, At(migs, firstUnapplied).Name, "")
    ELSE IF r.name # At(migs, firstUnapplied).Name
    THEN Err("NameMismatch", r.index, At(migs, firstUnapplied).Name, r.name)
    ELSE Nil

\* The loop body without the test index < firstUnappliedMigrationIndex.
checkRowNoOrderCheck(r, firstUnapplied, migs) ==
    IF r.index >= Len(migs)
    THEN Err("NoSuchMigration", r.index, "", r.name)
    ELSE IF firstUnapplied >= Len(migs)
    THEN Err("IndexOutOfRange", firstUnapplied, "", "")
    ELSE IF r.index > firstUnapplied
    THEN Err("Skipped", firstUnapplied, At(migs, firstUnapplied).Name, "")
    ELSE IF r.name # At(migs, firstUnapplied).Name
    THEN Err("NameMismatch", r.index, At(migs, firstUnapplied).Name, r.name)
    ELSE Nil

\* The loop body with the test for a skipped migration ahead of the test
\* against len(migrations).
checkRowSkipFirst(r, firstUnapplied, migs) ==
    IF r.index < firstUnapplied
    THEN Err("NegativeOrDuplicate", r.index, "", "")
    ELSE IF r.index > firstUnapplied /\ firstUnapplied < Len(migs)
    THEN Err("Skipped", firstUnapplied, At(migs, firstUnapplied).Name, "")
    ELSE IF r.index >= Len(migs)
    THEN Err("NoSuchMigration", r.index, "", r.name)
    ELSE IF r.name # At(migs, firstUnapplied).Name
    THEN Err("NameMismatch", r.index, At(migs, firstUnapplied).Name, r.name)
    ELSE Nil

checkRow(r, firstUnapplied, migs) ==
    IF r.index < firstUnapplied
    THEN Err("NegativeOrDuplicate", r.index, "", "")
    ELSE IF r.index >= Len(migs)
    THEN Err("NoSuchMigration", r.index, "", r.name)
    ELSE IF r.index > firstUnapplied
    THEN Err("Skipped", firstUnapplied, At(migs, firstUnapplied).Name, "")
    ELSE IF r.name # At(migs, firstUnapplied).Name
    THEN Err("NameMismatch", r.index, At(migs, firstUnapplied).Name, r.name)
    ELSE Nil

\* The loop `for rows.Next()`, from row number pos on.  q.errAt is where the
\* read fails: 0 for tx.Query itself, i for the Scan of row i, Len(rows)+1
\* for rows.Err() after the last row, -1 for a read that succeeds.
RECURSIVE verifyLoop(_, _, _, _)
verifyLoop(q, migs, pos, firstUnapplied) ==
    IF pos > Len(q.rows)
    THEN IF q.errAt = pos
         THEN Verdict(-1, Err("FetchMigrations", -1, "", ""))
         ELSE Verdict(firstUnapplied, Nil)
    ELSE IF q.errAt = pos
    THEN Verdict(-1, Err("FetchMigrations", -1, "", ""))
    ELSE LET e == checkRow(q.rows[pos], firstUnapplied, migs)
         IN  IF e # Nil
             THEN Verdict(-1, e)
             ELSE verifyLoop(q, migs, pos + 1, firstUnapplied + 1)

\* The indices at which one iteration of the loop reads the list:
\* migrations[firstUnappliedMigrationIndex], read after the two tests of
\* appliedMigrationIndex.  The first definition is the loop body without
\* the test against len(migrations).
checkRowReadsNoBoundsCheck(r, firstUnapplied, migs) ==
    IF r.index < firstUnapplied THEN {} ELSE {firstUnapplied}

checkRowReads(r, firstUnapplied, migs) ==
    IF r.index < firstUnapplied
    THEN {}
    ELSE IF r.index >= Len(migs)
    THEN {}
    ELSE {firstUnapplied}

\* The indices at which verifyMigrations reads the list, from row number
\* pos on.
RECURSIVE verifyLoopReads(_, _, _, _)
verifyLoopReads(q, migs, pos, firstUnapplied) ==
    IF pos > Len(q.rows) \/ q.errAt = pos
    THEN {}
    ELSE checkRowReads(q.rows[pos], firstUnapplied, migs)
            \cup IF checkRow(q.rows[pos], firstUnapplied, migs) # Nil
                 THEN {}
                 ELSE verifyLoopReads(q, migs, pos + 1, firstUnapplied + 1)

verifyReads(q, migs) ==
    IF q.errAt = 0 THEN {} ELSE verifyLoopReads(q, migs, 1, 0)

\* A verifier that does not read the ledger and reports nothing applied.
verifyMigrationsFromZero(q, migs) == Verdict(0, Nil)

verifyMigrations(q, migs) ==
    IF q.errAt = 0
    THEN Verdict(-1, Err("FetchMigrations", -1, "", ""))
    ELSE verifyLoop(q, migs, 1, 0)


\* SELECT "index", name FROM migration ORDER BY "index" ASC.
RECURSIVE SelectOrdered(_)
SelectOrdered(rows) ==
    IF rows = {}
    THEN <<>>
    ELSE LET r == CHOOSE x \in rows : \A y \in rows : x.index <= y.index
         IN  <<r>> \o SelectOrdered(rows \ {r})

\* The places at which reading n rows can fail, and -1 for no failure.
ReadFaults(n) == {-1} \cup (0..(n + 1))

(***************************************************************************)
(* The engine: state of a caller and of its transaction.                   *)
(***************************************************************************)
NoOp == [name |-> "none", len |-> 0, through |-> -1]
\* A transaction: whether it is open, its uncommitted work, the flag
\* `committed` of the function that began it, the calls that ended it, and
\* its number among the transactions of the call of Migrate or Rollback.
NoTx == [open |-> FALSE, effect |-> "none", wrote |-> FALSE,
         committed |-> FALSE, ends |-> <<>>, seq |-> 0]

\* tx.Commit() has succeeded, after committed = true.
txCommit(t) ==
    [t EXCEPT !.open = FALSE, !.effect = "none", !.wrote = FALSE,
              !.committed = TRUE, !.ends = Append(@, "Commit")]

\* tx.Commit() has failed, after committed = true: the transaction is over
\* and its work is lost.
txCommitFailed(t) ==
    [t EXCEPT !.open = FALSE, !.committed = TRUE,
              !.ends = Append(@, "CommitFailed")]

\* The deferred function of migrateOne and rollbackOne:
\* if !committed { tx.Rollback() }.  The first definition is a function
\* that rolls nothing back, the second one the function without the flag.
deferredRollbackNever(t) == [t EXCEPT !.effect = "none", !.wrote = FALSE]

deferredRollbackAlways(t) ==
    [t EXCEPT !.open = FALSE, !.effect = "none", !.wrote = FALSE,
              !.ends = Append(@, "Rollback")]

deferredRollback(t) ==
    IF t.committed
    THEN [t EXCEPT !.effect = "none", !.wrote = FALSE]
    ELSE [t EXCEPT !.open = FALSE, !.effect = "none", !.wrote = FALSE,
                   !.ends = Append(@, "Rollback")]
Running == Err("running", -1, "", "")

\* The list a call was given: a prefix of the declared list.
ListOf(p) == SubSeq(migrations, 1, op[p].len)

\* The index a step works on: firstUnappliedIndex in migrateOne, and
\* index := firstUnappliedIndex - 1 in rollbackOne.
stepIndexIsTarget(name, firstUnapplied, through) ==
    IF name = "Rollback" THEN through ELSE firstUnapplied

\* migrateOne working once more on the index applied last.
stepIndexRepeats(name, firstUnapplied, through) ==
    IF name = "Rollback" \/ firstUnapplied = 0
    THEN stepIndexIsTarget("Migrate", firstUnapplied, through)
    ELSE firstUnapplied - 1

stepIndex(name, firstUnapplied, through) ==
    IF name = "Rollback" THEN firstUnapplied - 1 ELSE firstUnapplied

\* The index the open transaction of p works on.
StepIndex(p) == stepIndex(op[p].name, first[p], op[p].through)

\* Migrate's loop: call migrateOne again while it reports a migration done.
migrateLoopOnce(migrated) == "idle"

migrateLoop(migrated) == IF migrated THEN "begin" ELSE "idle"

\* Rollback's loop: call rollbackOne again until it reports
\* rollBackThroughIndex.
rollbackLoopOnce(rolledBackIndex, through) == "idle"

\* A loop that calls rollbackOne once more after rollBackThroughIndex.
rollbackLoopOnceMore(rolledBackIndex, through) == "begin"

rollbackLoop(rolledBackIndex, through) ==
    IF rolledBackIndex = through THEN "idle" ELSE "begin"

\* The histories of the calls: the steps a call ran and the counters of
\* the steps.  They are kept where the number of steps is bounded, and left
\* as they are where calls run on for ever.
Logged(r, e) == IF history THEN Append(r, e) ELSE r
Counted(n) == IF history THEN n + 1 ELSE n

Snapshot == [ledger |-> ledger, schema |-> schema, table |-> tableExists]

\* What is recorded when p makes a call: the database as it is, and for the
\* call p made before this one its name, its list, whether it returned nil
\* and the database as it was then.
NoPrevious ==
    [name |-> "none", len |-> 0, ok |-> FALSE, ledger |-> {}, schema |-> {}]

CallSnapshot(p) ==
    [ledger |-> ledger, schema |-> schema, table |-> tableExists,
     prev |-> [name |-> op[p].name, len |-> op[p].len,
               ok |-> (result[p].kind = "nil"),
               ledger |-> start[p].ledger, schema |-> start[p].schema]]

\* Effect of a forward migration and of its Reverse on a schema.  The
\* schema is the set of objects present: i stands for what migration i
\* creates, Residue(i) for what a Reverse that is not the inverse of its
\* migration leaves behind.  A "leaky" Reverse leaves its residue for good;
\* the residue of a "covered" Reverse hangs on the objects of the migration
\* below and goes when that one is reversed.
Residue(i) == 0 - (i + 1)

CoveredBy(i) ==
    IF i + 1 < Len(migrations) /\ At(migrations, i + 1).Reverse = "covered"
    THEN {Residue(i + 1)}
    ELSE {}

\* What a "drifting" migration adds on every second application of it: its
\* outcome depends on what the database keeps outside the dumped schema.
Drift(i) == MaxMigrations + i

Forward(s, i) ==
    IF At(migrations, i).Migration = "drifting" /\ fwdCommits[i] % 2 = 1
    THEN s \cup {i, Drift(i)}
    ELSE s \cup {i}

Inverse(s, i) ==
    IF At(migrations, i).Reverse \in {"leaky", "covered"}
    THEN ((s \ {i, Drift(i)}) \ CoveredBy(i)) \cup {Residue(i)}
    ELSE (s \ {i, Drift(i)}) \ CoveredBy(i)

\* A commit whose INSERT also rewrites the name of the row below.
commitLedgerTouchesBelow(l, t, i, n) ==
    IF t.effect = "forward" /\ t.wrote
    THEN {r \in l : r.index # i - 1}
         \cup {Row(r.index, n) : r \in {x \in l : x.index = i - 1}}
         \cup {Row(i, n)}
    ELSE IF t.effect = "reverse" /\ t.wrote THEN {r \in l : r.index # i}
    ELSE l

\* A commit that leaves the rows of the table as they were.
commitLedgerNoRows(l, t, i, n) == l

\* The committed state after tx.Commit() of a transaction t on index i.
commitLedger(l, t, i, n) ==
    IF t.effect = "forward" /\ t.wrote THEN l \cup {Row(i, n)}
    ELSE IF t.effect = "reverse" /\ t.wrote THEN {r \in l : r.index # i}
    ELSE l

commitSchema(s, t, i) ==
    IF t.effect = "forward" THEN Forward(s, i)
    ELSE IF t.effect = "reverse" THEN Inverse(s, i)
    ELSE s

\* The committed schema after the deferred tx.Rollback(): the transaction's
\* work is discarded.
rollbackSchemaKeepsWork(s, t, i) == commitSchema(s, t, i)

rollbackSchema(s, t, i) == s

\* LOCK TABLE migration returns only when no other transaction holds it.
lockGrantedAlways(p) == TRUE

lockGranted(p) == lockHolder = 0

\* The end of a transaction releases the table lock it holds.  The first
\* definition is a lock that outlives the transaction.
lockKept(p) == lockHolder

lockReleased(p) == IF lockHolder = p THEN 0 ELSE lockHolder

\* A call returns e; the lock goes with the transaction that held it.
Return(p, e) ==
    /\ UNCHANGED inputs
    /\ pc' = [pc EXCEPT ![p] = "idle"]
    /\ result' = [result EXCEPT ![p] = e]
    /\ lockHolder' = lockReleased(p)

\* Return(p, e) from migrateOne or rollbackOne after db.Beginx(): the
\* deferred function runs.  t is the transaction when the function returns,
\* and o says whether the migration itself failed ("failed") or another
\* statement of the step ("aborted").
Abort(p, e, t, o) ==
    /\ Return(p, e)
    /\ tx' = [tx EXCEPT ![p] = deferredRollback(t)]
    /\ schema' = rollbackSchema(schema, t, StepIndex(p))
    /\ ledger' = ledger
    /\ ran' = IF t.effect = "none"
              THEN ran
              ELSE [ran EXCEPT ![p] =
                       Logged(@, <<t.effect, StepIndex(p), o>>)]
    /\ UNCHANGED <<tableExists, op, first, calls, start, step,
                   fwdCommits, revCommits>>

\* Return(p, e) outside any transaction.
Leave(p, e) ==
    /\ Return(p, e)
    /\ UNCHANGED <<tableExists, ledger, schema, op, first, tx, calls, start,
                   step, ran, fwdCommits, revCommits>>

(***************************************************************************)
(* Migrate and Rollback: the calls.                                        *)
(***************************************************************************)
Enter(p, o) ==
    /\ p \in callers
    /\ pc[p] = "idle"
    /\ calls[p] > 0
    /\ pc' = [pc EXCEPT ![p] = "ensure"]
    /\ op' = [op EXCEPT ![p] = o]
    /\ calls' = [calls EXCEPT ![p] = @ - 1]
    /\ result' = [result EXCEPT ![p] = Running]
    /\ start' = [start EXCEPT ![p] = CallSnapshot(p)]
    /\ ran' = [ran EXCEPT ![p] = <<>>]
    /\ tx' = [tx EXCEPT ![p].seq = 0]
    /\ UNCHANGED <<inputs, tableExists, ledger, schema, lockHolder, first,
                   step, fwdCommits, revCommits>>

\* Migrate(db, migrations[:n])
Migrate(p, n) ==
    Enter(p, [name |-> "Migrate", len |-> n, through |-> -1])

\* Rollback(db, migrations, rollBackThroughIndex)
Rollback(p, through) ==
    Enter(p, [name |-> "Rollback", len |-> Len(migrations), through |-> through])

(***************************************************************************)
(* ensureMigrationsTableExists.                                            *)
(***************************************************************************)
\* if !exists { db.Exec(createMigrationsTableSQL) }; the first definition
\* is the function without that statement.
ifNotExistsSkip(exists) == "begin"

ifNotExists(exists) == IF exists THEN "begin" ELSE "create"

\* SELECT EXISTS(... information_schema.tables ...)
EnsureQuery(p) ==
    /\ pc[p] = "ensure"
    /\ \/ Leave(p, Err("CheckTable", -1, "", ""))
       \/ /\ pc' = [pc EXCEPT ![p] = ifNotExists(tableExists)]
          /\ UNCHANGED <<inputs, dbVars, op, first, tx, result, calls, start, step,
                         ran, fwdCommits, revCommits>>

\* The error of a CREATE TABLE on a database that has the table: relation
\* "migration" already exists.
AlreadyExists == Err("CreateTable", -1, "migration", "")

\* db.Exec(createMigrationsTableSQL): it fails as any call can, it fails
\* when the table exists by now, and it creates the table otherwise.
EnsureCreate(p) ==
    /\ pc[p] = "create"
    /\ \/ Leave(p, Err("CreateTable", -1, "", ""))
       \/ /\ tableExists
          /\ Leave(p, AlreadyExists)
       \/ /\ ~tableExists
          /\ tableExists' = TRUE
          /\ pc' = [pc EXCEPT ![p] = "begin"]
          /\ UNCHANGED <<inputs, ledger, schema, lockHolder, op, first, tx,
                         result, calls, start, step, ran, fwdCommits,
                         revCommits>>

(***************************************************************************)
(* migrateOne and rollbackOne: the common head.                            *)
(***************************************************************************)
\* tx, err := db.Beginx()
BeginTx(p) ==
    /\ pc[p] = "begin"
    /\ \/ Leave(p, Err("BeginTx", -1, "", ""))
       \/ /\ history => Len(ran[p]) < MaxSteps
          /\ tx' = [tx EXCEPT ![p] = [NoTx EXCEPT !.open = TRUE,
                                                  !.seq = Counted(tx[p].seq)]]
          /\ step' = [step EXCEPT ![p] = Snapshot]
          /\ pc' = [pc EXCEPT ![p] = "lock"]
          /\ UNCHANGED <<inputs, dbVars, op, first, result, calls, start, ran,
                         fwdCommits, revCommits>>

\* tx.Exec("LOCK TABLE migration")
LockTable(p) ==
    /\ pc[p] = "lock"
    /\ \/ Abort(p, Err("LockTable", -1, "", ""), tx[p], "aborted")
       \/ /\ tableExists
          /\ lockGranted(p)
          /\ lockHolder' = p
          /\ pc' = [pc EXCEPT ![p] = "verify"]
          /\ UNCHANGED <<inputs, tableExists, ledger, schema, op, first, tx,
                         result, calls, start, step, ran, fwdCommits,
                         revCommits>>

(***************************************************************************)
(* migrateOne.                                                             *)
(***************************************************************************)
\* firstUnappliedIndex, err := verifyMigrations(tx, migrations), and the
\* test firstUnappliedIndex >= len(migrations).
MigrateVerify(p) ==
    /\ pc[p] = "verify"
    /\ op[p].name = "Migrate"
    /\ \E f \in ReadFaults(Cardinality(ledger)) :
         LET v == verifyMigrations([rows |-> SelectOrdered(ledger), errAt |-> f],
                                   ListOf(p))
         IN  IF v.err # Nil
             THEN Abort(p, v.err, tx[p], "aborted")
             ELSE IF v.first >= Len(ListOf(p))
             THEN Abort(p, Nil, tx[p], "aborted")
             ELSE /\ first' = [first EXCEPT ![p] = v.first]
                  /\ pc' = [pc EXCEPT ![p] = "apply"]
                  /\ UNCHANGED <<inputs, dbVars, op, tx, result, calls, start,
                                 step, ran, fwdCommits, revCommits>>

\* err = migrations[firstUnappliedIndex].Migration.DoMigration(tx)
DoMigration(p) ==
    /\ pc[p] = "apply"
    /\ LET t == [tx[p] EXCEPT !.effect = "forward"]
           m == At(ListOf(p), StepIndex(p))
       IN  \/ Abort(p, Err("PerformMigration", StepIndex(p), m.Name, ""),
                    t, "failed")
           \/ /\ tx' = [tx EXCEPT ![p] = t]
              /\ pc' = [pc EXCEPT ![p] = "record"]
              /\ UNCHANGED <<inputs, dbVars, op, first, result, calls, start,
                             step, ran, fwdCommits, revCommits>>

\* INSERT INTO migration ("index", name) VALUES ($1, $2); UNIQUE ("index")
\* rejects an index the table already holds.
InsertRow(p) ==
    /\ pc[p] = "record"
    /\ LET m == At(ListOf(p), StepIndex(p))
       IN  \/ Abort(p, Err("RecordMigration", StepIndex(p), m.Name, ""),
                    tx[p], "aborted")
           \/ /\ \A r \in ledger : r.index # StepIndex(p)
              /\ tx' = [tx EXCEPT ![p].wrote = TRUE]
              /\ pc' = [pc EXCEPT ![p] = "commit"]
              /\ UNCHANGED <<inputs, dbVars, op, first, result, calls, start,
                             step, ran, fwdCommits, revCommits>>

\* committed = true; err = tx.Commit(); return true, nil -- and Migrate's
\* loop calls migrateOne again.
CommitMigrate(p) ==
    /\ pc[p] = "commit"
    /\ LET index == StepIndex(p)
           m == At(ListOf(p), index)
       IN  \/ Abort(p, Err("Commit", -1, "", ""), txCommitFailed(tx[p]),
                    "aborted")
           \/ /\ \A r \in ledger : r.index # index
              /\ ledger' = commitLedger(ledger, tx[p], index, m.Name)
              /\ schema' = commitSchema(schema, tx[p], index)
              /\ lockHolder' = lockReleased(p)
              /\ tx' = [tx EXCEPT ![p] = txCommit(@)]
              /\ ran' = [ran EXCEPT ![p] =
                            Logged(@, <<"forward", index, "committed">>)]
              /\ fwdCommits' = [fwdCommits EXCEPT ![index] = Counted(@)]
              /\ pc' = [pc EXCEPT ![p] = migrateLoop(TRUE)]
              /\ result' = [result EXCEPT ![p] =
                               IF migrateLoop(TRUE) = "idle" THEN Nil ELSE @]
              /\ UNCHANGED <<inputs, tableExists, op, first, calls, start,
                             step, revCommits>>

(***************************************************************************)
(* rollbackOne.                                                            *)
(***************************************************************************)
\* The checks of rollBackThroughIndex against the verified ledger; the
\* first definition accepts the target one above the top applied index.
targetCheckOffByOne(through, firstUnapplied) ==
    IF through < 0
    THEN Err("InvalidTarget", through, "", "")
    ELSE IF through > firstUnapplied \/ firstUnapplied = 0
    THEN Err("NotApplied", through, "", "")
    ELSE Nil

targetCheck(through, firstUnapplied) ==
    IF through < 0
    THEN Err("InvalidTarget", through, "", "")
    ELSE IF through >= firstUnapplied
    THEN Err("NotApplied", through, "", "")
    ELSE Nil

\* verifyMigrations, then the checks of rollBackThroughIndex and of Reverse.
RollbackVerify(p) ==
    /\ pc[p] = "verify"
    /\ op[p].name = "Rollback"
    /\ \E f \in ReadFaults(Cardinality(ledger)) :
         LET v == verifyMigrations([rows |-> SelectOrdered(ledger), errAt |-> f],
                                   ListOf(p))
             through == op[p].through
             index == stepIndex("Rollback", v.first, through)
         IN  IF v.err # Nil
             THEN Abort(p, v.err, tx[p], "aborted")
             ELSE IF targetCheck(through, v.first) # Nil
             THEN Abort(p, targetCheck(through, v.first), tx[p], "aborted")
             ELSE IF At(ListOf(p), index).Reverse = "none"
             THEN Abort(p, Err("NoReverse", index, At(ListOf(p), index).Name, ""),
                        tx[p], "aborted")
             ELSE /\ first' = [first EXCEPT ![p] = v.first]
                  /\ pc' = [pc EXCEPT ![p] = "reverse"]
                  /\ UNCHANGED <<inputs, dbVars, op, tx, result, calls, start,
                                 step, ran, fwdCommits, revCommits>>

\* err = migrations[index].Reverse.DoMigration(tx)
DoReverse(p) ==
    /\ pc[p] = "reverse"
    /\ LET t == [tx[p] EXCEPT !.effect = "reverse"]
           m == At(ListOf(p), StepIndex(p))
       IN  \/ Abort(p, Err("ReverseMigration", StepIndex(p), m.Name, ""),
                    t, "failed")
           \/ /\ tx' = [tx EXCEPT ![p] = t]
              /\ pc' = [pc EXCEPT ![p] = "delete"]
              /\ UNCHANGED <<inputs, dbVars, op, first, result, calls, start,
                             step, ran, fwdCommits, revCommits>>

\* DELETE FROM migration WHERE "index"=$1
DeleteRow(p) ==
    /\ pc[p] = "delete"
    /\ LET m == At(ListOf(p), StepIndex(p))
       IN  \/ Abort(p, Err("DeleteRow", StepIndex(p), m.Name, ""),
                    tx[p], "aborted")
           \/ /\ tx' = [tx EXCEPT ![p].wrote = TRUE]
              /\ pc' = [pc EXCEPT ![p] = "commitReverse"]
              /\ UNCHANGED <<inputs, dbVars, op, first, result, calls, start,
                             step, ran, fwdCommits, revCommits>>

\* committed = true; err = tx.Commit(); return index, nil -- and Rollback's
\* loop returns when index is rollBackThroughIndex, else calls rollbackOne
\* again.
CommitRollback(p) ==
    /\ pc[p] = "commitReverse"
    /\ LET index == StepIndex(p)
           m == At(ListOf(p), index)
           next == rollbackLoop(index, op[p].through)
       IN  \/ Abort(p, Err("Commit", -1, "", ""), txCommitFailed(tx[p]),
                    "aborted")
           \/ /\ ledger' = commitLedger(ledger, tx[p], index, m.Name)
              /\ schema' = commitSchema(schema, tx[p], index)
              /\ lockHolder' = lockReleased(p)
              /\ tx' = [tx EXCEPT ![p] = txCommit(@)]
              /\ ran' = [ran EXCEPT ![p] =
                            Logged(@, <<"reverse", index, "committed">>)]
              /\ revCommits' = [revCommits EXCEPT ![index] = Counted(@)]
              /\ pc' = [pc EXCEPT ![p] = next]
              /\ result' = [result EXCEPT ![p] =
                               IF next = "idle" THEN Nil ELSE @]
              /\ UNCHANGED <<inputs, tableExists, op, first, calls, start,
                             step, fwdCommits>>

(***************************************************************************)
(* The verifier on its own: verifyMigrations applied to any selected rows. *)
(***************************************************************************)
Pending == Verdict(-2, Err("pending", -1, "", ""))
NoQuery == [rows |-> <<>>, errAt |-> -1]

RowSpace == [index : (-1)..MaxMigrations, name : Names]

\* What the SELECT can return: rows in ascending order of "index"; rows of
\* equal index come in any order.
SortedRows ==
    {rs \in UNION {[1..n -> RowSpace] : n \in 0..MaxRows} :
        \A i \in 1..(Len(rs) - 1) : rs[i].index <= rs[i + 1].index}

\* Declared lists of every length up to MaxMigrations.
AnyLists == UNION {[1..n -> NamedMigration] : n \in 0..MaxMigrations}

VerifyCall ==
    /\ verified = Pending
    /\ \E f \in ReadFaults(Len(query.rows)) :
         /\ query' = [query EXCEPT !.errAt = f]
         /\ verified' = verifyMigrations(query', migrations)
    /\ UNCHANGED <<migrations, callers, engineVars, st, ln, sm, history>>

(***************************************************************************)
(* SchemaTest and migrateAndRollback.  SchemaTest is caller 1 of the       *)
(* engine: it calls Migrate and Rollback and dumps the schema in between.  *)
(***************************************************************************)
\* The restrict keys pg_dump makes up for a dump, one for each invocation,
\* when it is given none.
RandomKeys == {"r1", "r2"}

\* The key of the \restrict line of the dump.  The first definition is
\* pg_dump called without --restrict-key: the key is the one it made up.
restrictKeyNotGiven(random) == random

\* "--restrict-key=key"
restrictKey(random) == "key"

\* dump(emptyDBConfig): the output of pg_dump -s, which shows the relations
\* present and the restrict key.
Dump(random) ==
    [schema |-> schema, table |-> tableExists, key |-> restrictKey(random)]
NoDump == [schema |-> {}, table |-> FALSE, key |-> ""]

\* verifyNoTables' query finds a relation outside the system schemas; the
\* migration table is one.  The first definition is a query that leaves
\* the migration table out.
UserRelationsButLedger == schema # {}

UserRelations == schema # {} \/ tableExists

\* string(beforeMigrate) != string(afterRollback), and the same test on the
\* dumps after migrating; the first definition is a test that never fails.
dumpsDifferNever(a, b) == FALSE

dumpsDiffer(a, b) == a # b

\* allMigrations[i].Name in an error message; the access panics when i is
\* not an index of the list.
NameForError(kind, i) ==
    IF i >= 0 /\ i < Len(migrations)
    THEN Err(kind, i, At(migrations, i).Name, "")
    ELSE Err("panic", i, "", "")

\* SchemaTest returns e.
STFinish(e) == st' = [st EXCEPT !.pc = "done", !.err = e]

\* The statements at which SchemaTest calls the engine, and the call made.
STCallSites == {"setup", "migrate", "rollback", "again"}

\* SchemaTest applying the whole list at every call of Migrate.
STOpFullList ==
    IF st.pc = "setup"
    THEN [name |-> "Migrate", len |-> 0, through |-> -1]
    ELSE IF st.pc = "rollback"
    THEN [name |-> "Rollback", len |-> Len(migrations), through |-> st.through]
    ELSE [name |-> "Migrate", len |-> Len(migrations), through |-> -1]

STOp ==
    IF st.pc = "setup"
    THEN [name |-> "Migrate", len |-> 0, through |-> -1]
    ELSE IF st.pc = "rollback"
    THEN [name |-> "Rollback", len |-> Len(migrations), through |-> st.through]
    ELSE [name |-> "Migrate", len |-> st.to + 1, through |-> -1]

\* The error SchemaTest wraps a failed call in.
STCallError ==
    IF st.pc = "setup" THEN Err("SetupFailed", -1, "", "")
    ELSE IF st.pc = "rollback" THEN NameForError("RollbackFailed", st.through)
    ELSE IF st.pc = "migrate" THEN NameForError("MigrateFailed", st.to)
    ELSE NameForError("RemigrateFailed", st.to)

\* migrateAndRollback(..., migrateToIndex, rollbackThroughIndex,
\* repeatForward) is entered; the first definition enters it without
\* repeatForward.
STEnterNoRepeat(s, phase, to, through, repeat) ==
    [s EXCEPT !.pc = "dumpBefore", !.phase = phase, !.to = to,
              !.through = through, !.repeat = FALSE]

STEnter(s, phase, to, through, repeat) ==
    [s EXCEPT !.pc = "dumpBefore", !.phase = phase, !.to = to,
              !.through = through, !.repeat = repeat]

\* SchemaTest without the loop over the migrations.
STAdvanceNoLoop(s) == [s EXCEPT !.pc = "done", !.err = Nil]

\* migrateAndRollback has returned nil: phase 2 starts, goes on to the next
\* index, or is over.
STAdvance(s) ==
    LET idx == IF s.phase = 1 THEN 0 ELSE s.to + 1
    IN  IF idx < Len(migrations)
        THEN STEnter(s, 2, idx, idx, TRUE)
        ELSE [s EXCEPT !.pc = "done", !.err = Nil]

\* The checks of the configuration, and sqlx.Connect.
STOpen ==
    /\ st.pc = "open"
    /\ \/ /\ ~st.config
          /\ STFinish(Err("Config", -1, "", ""))
       \/ /\ st.config
          /\ STFinish(Err("Connect", -1, "", ""))
       \/ /\ st.config
          /\ st' = [st EXCEPT !.pc = "noTables"]
    /\ UNCHANGED <<migrations, callers, query, verified, engineVars, ln, sm, history>>

\* err = verifyNoTables(db)
STVerifyNoTables ==
    /\ st.pc = "noTables"
    /\ \/ STFinish(Err("CheckTables", -1, "", ""))
       \/ /\ UserRelations
          /\ STFinish(Err("NonEmptyDatabase", -1, "", ""))
       \/ /\ ~UserRelations
          /\ st' = [st EXCEPT !.pc = "setup", !.mark = calls[1]]
    /\ UNCHANGED <<migrations, callers, query, verified, engineVars, ln, sm, history>>

\* SchemaTest calls Migrate or Rollback.
STCall ==
    /\ st.pc \in STCallSites
    /\ calls[1] = st.mark
    /\ Enter(1, STOp)

\* The call has returned.
STReturn ==
    /\ st.pc \in STCallSites
    /\ calls[1] = st.mark - 1
    /\ pc[1] = "idle"
    /\ IF result[1] # Nil
       THEN STFinish(STCallError)
       ELSE st' = IF st.pc = "setup"
                  THEN STEnter([st EXCEPT !.mark = calls[1]], 1,
                               Len(migrations) - 1, 0, FALSE)
                  ELSE [st EXCEPT !.mark = calls[1],
                                  !.pc = CASE st.pc = "migrate" -> "dumpAfter"
                                           [] st.pc = "rollback" -> "dumpRollback"
                                           [] OTHER -> "dumpAgain"]
    /\ UNCHANGED <<migrations, callers, query, verified, engineVars, ln, sm, history>>

\* A dump, and the comparison that follows it.
STDump ==
    /\ st.pc \in {"dumpBefore", "dumpAfter", "dumpRollback", "dumpAgain"}
    /\ \E random \in RandomKeys :
       LET s == [st EXCEPT !.dumps = @ + 1]
           out == Dump(random)
       IN  \/ st' = [s EXCEPT !.pc = "done", !.err = Err("Dump", -1, "", "")]
           \/ /\ st.pc = "dumpBefore"
              /\ st' = [s EXCEPT !.pc = "migrate", !.before = out]
           \/ /\ st.pc = "dumpAfter"
              /\ st' = [s EXCEPT !.pc = "rollback", !.after = out]
           \/ /\ st.pc = "dumpRollback"
              /\ LET t == [s EXCEPT !.log = Append(@,
                               [phase |-> st.phase, to |-> st.to,
                                through |-> st.through,
                                before |-> st.before, rolledBack |-> out])]
                 IN  st' = IF dumpsDiffer(st.before, out)
                           THEN [t EXCEPT !.pc = "done",
                                          !.err = NameForError(
                                              "RollbackMismatch", st.through)]
                           ELSE IF st.repeat
                           THEN [t EXCEPT !.pc = "again"]
                           ELSE STAdvance(t)
           \/ /\ st.pc = "dumpAgain"
              /\ LET t == [s EXCEPT !.relog = Append(@,
                               [to |-> st.to, after |-> st.after,
                                again |-> out])]
                 IN  st' = IF dumpsDiffer(st.after, out)
                           THEN [t EXCEPT !.pc = "done",
                                          !.err = NameForError(
                                              "RemigrateMismatch", st.to)]
                           ELSE STAdvance(t)
    /\ UNCHANGED <<migrations, callers, query, verified, engineVars, ln, sm, history>>

(***************************************************************************)
(* pgutils.Listen: the call, and the goroutine it starts.  The goroutine   *)
(* is followed through its loop, statement by statement; what pq.Listener  *)
(* and the context do is the environment.                                  *)
(***************************************************************************)
\* Notifications delivered and listeners rebuilt that the model follows.
MaxNotifications == 2
MaxReconnects == 2
\* Consecutive failures of makeListener that the model follows.
MaxFailures == 7

\* time.Second and maxBackoff, in seconds.
InitialBackoff == 1
maxBackoff == 30

\* A backoff that doubles without a limit.
nextBackoffNoLimit(b) == b * 2

\* if backoff < maxBackoff { backoff *= 2; if backoff > maxBackoff {
\* backoff = maxBackoff } }
nextBackoff(b) ==
    IF b < maxBackoff
    THEN IF b * 2 > maxBackoff THEN maxBackoff ELSE b * 2
    ELSE b

\* Where a `return` of the goroutine goes: to its deferred function.  The
\* first definition is a goroutine that calls onClose at the ctx.Done()
\* case of its event loop and not in a deferred function.
afterReturnNoDefer(path) ==
    IF path = "ctxSelect" THEN "deferred" ELSE "closing"

afterReturn(path) == "deferred"

\* Listen has not been called.
NoListen ==
    [pc |-> "off", callback |-> FALSE, onClose |-> FALSE, returned |-> "none",
     listener |-> "nil", notifyOpen |-> FALSE, reconnectEventCh |-> 0,
     ctxDone |-> FALSE, backoff |-> InitialBackoff, path |-> "none",
     onCloseCalls |-> 0, openListeners |-> 0, delivered |-> 0,
     rebuilt |-> 0, fails |-> 0, waits |-> <<>>]

notListen == <<history, migrations, callers, query, verified, st, sm, tableExists,
               ledger, schema, lockHolder, pc, op, first, tx, result, calls,
               start, step, ran, fwdCommits, revCommits>>

\* Listen up to the `go` statement: the test of callback, and the first
\* makeListener.
ListenCall ==
    /\ ln.pc = "call"
    /\ \/ /\ ~ln.callback
          /\ ln' = [ln EXCEPT !.pc = "none", !.returned = "error"]
       \/ /\ ln.callback
          /\ ln' = [ln EXCEPT !.pc = "none", !.returned = "error"]
       \/ /\ ln.callback
          /\ ln' = [ln EXCEPT !.pc = "select", !.returned = "pending",
                              !.listener = "open", !.notifyOpen = TRUE,
                              !.openListeners = @ + 1]
    /\ UNCHANGED notListen

\* return nil, after the `go` statement.
ListenReturn ==
    /\ ln.returned = "pending"
    /\ ln' = [ln EXCEPT !.returned = "nil"]
    /\ UNCHANGED notListen

\* The context is cancelled.
Cancel ==
    /\ ln.pc # "off"
    /\ ~ln.ctxDone
    /\ ln' = [ln EXCEPT !.ctxDone = TRUE]
    /\ UNCHANGED notListen

\* pq.Listener reports ListenerEventDisconnected or
\* ListenerEventConnectionAttemptFailed: cb sends on reconnectEventCh when
\* the channel has room.
ListenerEvent ==
    /\ ln.listener = "open"
    /\ ln.reconnectEventCh = 0
    /\ ln.rebuilt < MaxReconnects
    /\ ln' = [ln EXCEPT !.reconnectEventCh = 1]
    /\ UNCHANGED notListen

\* The Notify channel of the current listener is closed.
NotifyClosed ==
    /\ ln.listener = "open"
    /\ ln.notifyOpen
    /\ ln' = [ln EXCEPT !.notifyOpen = FALSE]
    /\ UNCHANGED notListen

\* for listener == nil { listener, err = makeListener() ... }: the attempt
\* fails and the wait of `backoff` starts, or it succeeds.  fails counts
\* the failures since the last listener, waits keeps the waits started
\* since then.
Rebuild ==
    /\ ln.pc = "rebuild"
    /\ \/ /\ ln.fails < MaxFailures
          /\ ln' = [ln EXCEPT !.pc = "backoff", !.fails = @ + 1,
                              !.waits = Append(@, ln.backoff)]
       \/ ln' = [ln EXCEPT !.pc = "select", !.listener = "open",
                           !.notifyOpen = TRUE, !.openListeners = @ + 1,
                           !.backoff = InitialBackoff, !.rebuilt = @ + 1,
                           !.fails = 0, !.waits = <<>>]
    /\ UNCHANGED notListen

\* select { case <-time.After(backoff): ...; continue }.  The select is
\* decided by the first of its two events: the timer, started when the
\* select is entered, is the first only on a context that is not
\* cancelled.
BackoffElapsed ==
    /\ ln.pc = "backoff"
    /\ ~ln.ctxDone
    /\ ln' = [ln EXCEPT !.pc = "rebuild", !.backoff = nextBackoff(@)]
    /\ UNCHANGED notListen

\* select { ... case <-ctx.Done(): return }
BackoffCancelled ==
    /\ ln.pc = "backoff"
    /\ ln.ctxDone
    /\ ln' = [ln EXCEPT !.pc = afterReturn("ctxBackoff"),
                        !.path = "ctxBackoff"]
    /\ UNCHANGED notListen

\* case n, ok := <-listener.Notify, with ok: a nil n is passed over, any
\* other is handed to callback.
Notify ==
    /\ ln.pc = "select"
    /\ ln.notifyOpen
    /\ ln.delivered < MaxNotifications
    /\ \/ ln' = [ln EXCEPT !.delivered = @ + 1]
       \/ /\ ln.rebuilt > 0
          /\ UNCHANGED ln
    /\ UNCHANGED notListen

\* case n, ok := <-listener.Notify, with !ok: return
NotifyEnded ==
    /\ ln.pc = "select"
    /\ ~ln.notifyOpen
    /\ ln' = [ln EXCEPT !.pc = afterReturn("notifyClosed"),
                        !.path = "notifyClosed"]
    /\ UNCHANGED notListen

\* case <-reconnectEventCh: _ = listener.Close(); listener = nil
Reconnect ==
    /\ ln.pc = "select"
    /\ ln.reconnectEventCh = 1
    /\ ln' = [ln EXCEPT !.pc = "rebuild", !.reconnectEventCh = 0,
                        !.listener = "nil", !.notifyOpen = FALSE,
                        !.openListeners = @ - 1]
    /\ UNCHANGED notListen

\* case <-ctx.Done(): return
SelectCancelled ==
    /\ ln.pc = "select"
    /\ ln.ctxDone
    /\ ln' = [ln EXCEPT !.pc = afterReturn("ctxSelect"), !.path = "ctxSelect"]
    /\ UNCHANGED notListen

\* The deferred function: if onClose != nil { onClose() }
DeferredOnClose ==
    /\ ln.pc = "deferred"
    /\ ln' = [ln EXCEPT !.pc = "closing",
                        !.onCloseCalls = IF ln.onClose THEN @ + 1 ELSE @]
    /\ UNCHANGED notListen

\* The deferred function: if listener != nil { _ = listener.Close() }, and
\* the goroutine is over.
DeferredClose ==
    /\ ln.pc = "closing"
    /\ ln' = [ln EXCEPT !.pc = "exited",
                        !.listener = IF @ = "open" THEN "closed" ELSE @,
                        !.notifyOpen = FALSE,
                        !.openListeners = IF ln.listener = "open"
                                          THEN @ - 1 ELSE @]
    /\ UNCHANGED notListen

(***************************************************************************)
(* StaticMigration.DoMigration: the loop over the SQL statements.          *)
(***************************************************************************)
\* Length of the longest StaticMigration, and the statements it is made of.
MaxStatements == 4
Statement == {"sql1", "sql2"}

StaticMigration == UNION {[1..n -> Statement] : n \in 0..MaxStatements}

\* DoMigration has not been called.
NoStatic ==
    [pc |-> "off", m |-> <<>>, next |-> 1, executed |-> <<>>, failed |-> {},
     result |-> NoCall]

\* if err != nil { return err }, after the tx.Exec of statement number i.
\* The first definition is a loop that goes on after an error.
execFailedGoesOn(s, i) ==
    [s EXCEPT !.next = i + 1, !.failed = @ \cup {i}]

execFailed(s, i) ==
    [s EXCEPT !.pc = "returned", !.failed = @ \cup {i},
              !.result = Err("Exec", i, "", s.m[i])]

notStatic == <<history, migrations, callers, query, verified, st, ln, tableExists,
               ledger, schema, lockHolder, pc, op, first, tx, result, calls,
               start, step, ran, fwdCommits, revCommits>>

\* One pass of `for _, sql := range m`: _, err := tx.Exec(sql)
StaticExec ==
    /\ sm.pc = "range"
    /\ sm.next <= Len(sm.m)
    /\ LET s == [sm EXCEPT !.executed = Append(@, sm.m[sm.next])]
       IN  \/ sm' = execFailed(s, sm.next)
           \/ sm' = [s EXCEPT !.next = @ + 1]
    /\ UNCHANGED notStatic

\* The range is over: return nil
StaticReturn ==
    /\ sm.pc = "range"
    /\ sm.next > Len(sm.m)
    /\ sm' = [sm EXCEPT !.pc = "returned", !.result = Nil]
    /\ UNCHANGED notStatic

(***************************************************************************)
(* Initial states.                                                         *)
(***************************************************************************)
\* SchemaTest is not running.
NoSchemaTest ==
    [pc |-> "off", config |-> TRUE, phase |-> 0, to |-> -1, through |-> 0,
     repeat |-> FALSE, mark |-> 0, dumps |-> 0,
     before |-> NoDump, after |-> NoDump, log |-> <<>>, relog |-> <<>>,
     err |-> NoCall]

NoSnapshot == [ledger |-> {}, schema |-> {}, table |-> FALSE]
NoCallSnapshot ==
    [ledger |-> {}, schema |-> {}, table |-> FALSE, prev |-> NoPrevious]

IdleCallers(n) ==
    /\ lockHolder = 0
    /\ pc = [p \in Callers |-> "idle"]
    /\ op = [p \in Callers |-> NoOp]
    /\ first = [p \in Callers |-> 0]
    /\ tx = [p \in Callers |-> NoTx]
    /\ result = [p \in Callers |-> NoCall]
    /\ calls = [p \in Callers |-> n]
    /\ start = [p \in Callers |-> NoCallSnapshot]
    /\ step = [p \in Callers |-> NoSnapshot]
    /\ ran = [p \in Callers |-> <<>>]
    /\ fwdCommits = [i \in Indices |-> 0]
    /\ revCommits = [i \in Indices |-> 0]

\* The declared lists the engine is run with: MaxMigrations migrations,
\* named a, b, a, ..., each with or without a Reverse.
NameAt(i) == IF i % 2 = 0 THEN "a" ELSE "b"
DeclaredLists ==
    {l \in [1..MaxMigrations -> NamedMigration] :
        \A i \in 1..MaxMigrations : l[i].Name = NameAt(i - 1)}

\* The declared lists in which every migration has a Reverse.
ReversibleLists ==
    {l \in DeclaredLists : \A i \in 1..Len(l) : l[i].Reverse = "inverse"}

\* A database on which nothing has run yet.
EmptyDatabase ==
    /\ tableExists = FALSE
    /\ ledger = {}
    /\ schema = {}

\* A migration table with any rows: "index" is UNIQUE.
SeededLedgers ==
    {l \in SUBSET RowSpace :
        /\ Cardinality(l) <= MaxRows
        /\ \A r, r2 \in l : r.index = r2.index => r = r2}

\* A database to which Migrate has applied the first k migrations.
MigratedDatabase(k) ==
    /\ tableExists = TRUE
    /\ ledger = {Row(i, At(migrations, i).Name) : i \in 0..(k - 1)}
    /\ schema = 0..(k - 1)

Init ==
    /\ migrations \in DeclaredLists
    /\ EmptyDatabase
    /\ callers = {1}
    /\ IdleCallers(MaxCalls)
    /\ query = NoQuery
    /\ verified = Pending
    /\ st = NoSchemaTest
    /\ ln = NoListen
    /\ sm = NoStatic
    /\ history = TRUE

InitConcurrent ==
    /\ migrations \in ReversibleLists
    /\ \/ EmptyDatabase
       \/ \E k \in 0..MaxMigrations : MigratedDatabase(k)
    /\ callers = Callers
    /\ IdleCallers(MaxConcurrentCalls)
    /\ query = NoQuery
    /\ verified = Pending
    /\ st = NoSchemaTest
    /\ ln = NoListen
    /\ sm = NoStatic
    /\ history = TRUE

InitSeeded ==
    /\ migrations \in ReversibleLists
    /\ \/ EmptyDatabase
       \/ /\ tableExists = TRUE
          /\ ledger \in SeededLedgers
          /\ schema = {r.index : r \in ledger} \cap Indices
    /\ callers = {1}
    /\ IdleCallers(MaxSeededCalls)
    /\ query = NoQuery
    /\ verified = Pending
    /\ st = NoSchemaTest
    /\ ln = NoListen
    /\ sm = NoStatic
    /\ history = TRUE

\* The lists SchemaTest is given: every migration exact or drifting, every
\* Reverse the inverse of its migration, absent, or leaving a residue.
TestedLists ==
    UNION {{l \in [1..n -> [Name : Names,
                            Migration : {"exact", "drifting"},
                            Reverse : {"inverse", "none", "leaky", "covered"}]] :
               \A i \in 1..n : l[i].Name = NameAt(i - 1)} :
           n \in 0..MaxMigrations}

\* The calls of the engine SchemaTest makes at most: one to set up the
\* table, two in phase 1, three for each migration in phase 2.
SchemaTestCalls == 3 + 3 * MaxMigrations

\* What is in the schema of a database that is not empty.
Stray == Residue(MaxMigrations)

InitSchemaTest ==
    /\ migrations \in TestedLists
    /\ tableExists \in BOOLEAN
    /\ ledger = {}
    /\ schema \in {{}, {Stray}}
    /\ callers = {1}
    /\ IdleCallers(SchemaTestCalls)
    /\ query = NoQuery
    /\ verified = Pending
    /\ st \in {[NoSchemaTest EXCEPT !.pc = "open", !.config = c] :
                  c \in BOOLEAN}
    /\ ln = NoListen
    /\ sm = NoStatic
    /\ history = TRUE

\* Listen is called with or without callback and onClose, on a context
\* that is cancelled already or not.
InitListen ==
    /\ migrations = <<>>
    /\ EmptyDatabase
    /\ callers = {}
    /\ IdleCallers(0)
    /\ query = NoQuery
    /\ verified = Pending
    /\ st = NoSchemaTest
    /\ ln \in {[NoListen EXCEPT !.pc = "call", !.callback = c, !.onClose = o,
                                !.ctxDone = d] : c, o, d \in BOOLEAN}
    /\ sm = NoStatic
    /\ history = TRUE

\* DoMigration is called on any StaticMigration.
InitStatic ==
    /\ migrations = <<>>
    /\ EmptyDatabase
    /\ callers = {}
    /\ IdleCallers(0)
    /\ query = NoQuery
    /\ verified = Pending
    /\ st = NoSchemaTest
    /\ ln = NoListen
    /\ sm \in {[NoStatic EXCEPT !.pc = "range", !.m = m] :
                  m \in StaticMigration}
    /\ history = TRUE

InitVerify ==
    /\ migrations \in AnyLists
    /\ EmptyDatabase
    /\ callers = {}
    /\ IdleCallers(0)
    /\ query \in {[rows |-> rs, errAt |-> -1] : rs \in SortedRows}
    /\ verified = Pending
    /\ st = NoSchemaTest
    /\ ln = NoListen
    /\ sm = NoStatic
    /\ history = TRUE

(***************************************************************************)
(* Specifications.                                                         *)
(***************************************************************************)
Next ==
    \E p \in Callers :
         \/ \E n \in 0..Len(migrations) : Migrate(p, n)
         \/ \E through \in (-1)..Len(migrations) : Rollback(p, through)
         \/ EnsureQuery(p)
         \/ EnsureCreate(p)
         \/ BeginTx(p)
         \/ LockTable(p)
         \/ MigrateVerify(p)
         \/ DoMigration(p)
         \/ InsertRow(p)
         \/ CommitMigrate(p)
         \/ RollbackVerify(p)
         \/ DoReverse(p)
         \/ DeleteRow(p)
         \/ CommitRollback(p)

NextVerify == VerifyCall

NextSchemaTest ==
    \/ STOpen
    \/ STVerifyNoTables
    \/ STCall
    \/ STReturn
    \/ STDump
    \/ \E p \in Callers :
         \/ EnsureQuery(p)
         \/ EnsureCreate(p)
         \/ BeginTx(p)
         \/ LockTable(p)
         \/ MigrateVerify(p)
         \/ DoMigration(p)
         \/ InsertRow(p)
         \/ CommitMigrate(p)
         \/ RollbackVerify(p)
         \/ DoReverse(p)
         \/ DeleteRow(p)
         \/ CommitRollback(p)

NextListen ==
    \/ ListenCall
    \/ ListenReturn
    \/ Cancel
    \/ ListenerEvent
    \/ NotifyClosed
    \/ Rebuild
    \/ BackoffElapsed
    \/ BackoffCancelled
    \/ Notify
    \/ NotifyEnded
    \/ Reconnect
    \/ SelectCancelled
    \/ DeferredOnClose
    \/ DeferredClose

NextStatic ==
    \/ StaticExec
    \/ StaticReturn

\* One caller, on a database on which nothing has run yet.
Spec == Init /\ [][Next]_vars

\* The statements of Migrate and Rollback after the call.
Statements ==
    \E p \in Callers :
         \/ EnsureQuery(p)
         \/ EnsureCreate(p)
         \/ BeginTx(p)
         \/ LockTable(p)
         \/ MigrateVerify(p)
         \/ DoMigration(p)
         \/ InsertRow(p)
         \/ CommitMigrate(p)
         \/ RollbackVerify(p)
         \/ DoReverse(p)
         \/ DeleteRow(p)
         \/ CommitRollback(p)

\* A Migrate of the whole list by one process and a Rollback by another,
\* at the same time, on a database to which any part of the list is
\* applied.  The calls can go on for ever, and no history is kept of them.
InitMixed ==
    /\ migrations \in ReversibleLists
    /\ \/ EmptyDatabase
       \/ \E k \in 0..MaxMigrations : MigratedDatabase(k)
    /\ callers = Callers
    /\ IdleCallers(MaxConcurrentCalls)
    /\ query = NoQuery
    /\ verified = Pending
    /\ st = NoSchemaTest
    /\ ln = NoListen
    /\ sm = NoStatic
    /\ history = FALSE

\* The forward or reverse step made in the step of p succeeds.
StepSucceeds(p) == result'[p].kind \notin {"PerformMigration", "ReverseMigration"}

\* The next statement of p, the forward and reverse steps succeeding.
StatementOf(p) ==
    \/ EnsureQuery(p)
    \/ EnsureCreate(p)
    \/ BeginTx(p)
    \/ LockTable(p)
    \/ MigrateVerify(p)
    \/ DoMigration(p) /\ StepSucceeds(p)
    \/ InsertRow(p)
    \/ CommitMigrate(p)
    \/ RollbackVerify(p)
    \/ DoReverse(p) /\ StepSucceeds(p)
    \/ DeleteRow(p)
    \/ CommitRollback(p)

NextMixed ==
    \E p \in Callers :
         \/ p = 1 /\ Migrate(p, Len(migrations))
         \/ p = 2 /\ \E through \in 0..(Len(migrations) - 1) :
                         Rollback(p, through)
         \/ EnsureQuery(p)
         \/ EnsureCreate(p)
         \/ BeginTx(p)
         \/ LockTable(p)
         \/ MigrateVerify(p)
         \/ DoMigration(p) /\ StepSucceeds(p)
         \/ InsertRow(p)
         \/ CommitMigrate(p)
         \/ RollbackVerify(p)
         \/ DoReverse(p) /\ StepSucceeds(p)
         \/ DeleteRow(p)
         \/ CommitRollback(p)

\* Both processes are scheduled again and again: a process whose next
\* statement can be executed executes it in the end.  A process waiting
\* for the table lock can execute nothing.
SpecMixed ==
    InitMixed /\ [][NextMixed]_vars /\ \A p \in Callers : WF_vars(StatementOf(p))

\* One caller whose calls, once made, go on to their next statement: every
\* database call comes back, with a result or with an error.
SpecReturning == Init /\ [][Next]_vars /\ WF_vars(Statements)

\* NumCallers concurrent callers, on a database on which nothing has run yet.
SpecConcurrent == InitConcurrent /\ [][Next]_vars

\* One caller, on a database whose migration table holds any rows.
SpecSeeded == InitSeeded /\ [][Next]_vars

\* verifyMigrations on its own, on any rows and any declared list.
SpecVerify == InitVerify /\ [][NextVerify]_vars

\* SchemaTest on a database that is empty or not, with any tested list.
SpecSchemaTest == InitSchemaTest /\ [][NextSchemaTest]_vars

\* One call of Listen and the goroutine it starts.
SpecListen == InitListen /\ [][NextListen]_vars

\* One call of StaticMigration.DoMigration.
SpecStatic == InitStatic /\ [][NextStatic]_vars

(***************************************************************************)
(* Vocabulary of the properties.                                           *)
(***************************************************************************)
\* The ledger that holds exactly the first k migrations of migs.
PrefixLedger(migs, k) == {Row(i, At(migs, i).Name) : i \in 0..(k - 1)}

LedgerIndices(l) == {r.index : r \in l}

\* rows are exactly (i, migs[i].Name) for i = 0..k-1.
ExactPrefix(rows, migs, k) ==
    /\ Len(rows) = k
    /\ k <= Len(migs)
    /\ \A i \in 1..k : rows[i] = Row(i - 1, migs[i].Name)

\* The position (1-based) of the first row that is not the expected one,
\* 0 when every row is.
FirstDeviation(rows, migs) ==
    LET bad == {i \in 1..Len(rows) :
                   i > Len(migs) \/ rows[i] # Row(i - 1, migs[i].Name)}
    IN  IF bad = {} THEN 0 ELSE CHOOSE i \in bad : \A j \in bad : i <= j

\* A call of p has returned.
Returned(p, name) ==
    /\ p \in callers
    /\ pc[p] = "idle"
    /\ op[p].name = name
    /\ result[p] # Running

\* A database call failed during the call of p that has returned.
DatabaseFailed(p) == result[p].kind \in DatabaseErrors

\* The errors verifyMigrations returns.
VerifierErrors ==
    {"NegativeOrDuplicate", "NoSuchMigration", "Skipped", "NameMismatch",
     "FetchMigrations"}

\* The steps of ran, as <<effect, index, outcome>>, from index `from` to
\* index `to` (upwards or downwards), all committed.
CommittedRun(effect, from, to) ==
    IF effect = "forward"
    THEN [i \in 1..(to - from + 1) |-> <<"forward", from + i - 1, "committed">>]
    ELSE [i \in 1..(from - to + 1) |-> <<"reverse", from - i + 1, "committed">>]

(***************************************************************************)
(* C1. Ledger-prefix invariant: from an empty ledger, after any sequence   *)
(* of Migrate and Rollback calls, each succeeding or failing at any step,  *)
(* the ledger holds exactly the rows (i, list[i].Name) for i < k, for some *)
(* k between 0 and the length of the list.                                 *)
(***************************************************************************)
C1_LedgerPrefix ==
    \E k \in 0..Len(migrations) : ledger = PrefixLedger(migrations, k)

C1_Witness ==
    /\ Returned(1, "Rollback")
    /\ calls[1] = 0
    /\ result[1].kind = "ReverseMigration"
    /\ ledger = PrefixLedger(migrations, 2)

(***************************************************************************)
(* C2. Step atomicity: in every committed state the effect of migration i  *)
(* is in the schema if and only if the ledger holds a row with index i.    *)
(***************************************************************************)
C2_StepAtomicity ==
    \A i \in Indices : (i \in schema) <=> (i \in LedgerIndices(ledger))

C2_Witness ==
    /\ \E p \in Callers : pc[p] = "commit" /\ first[p] = 1
    /\ \E q \in Callers : Returned(q, "Migrate") /\ result[q].kind = "RecordMigration"
    /\ schema = {0}

(***************************************************************************)
(* C3. Monotonic commit: when the forward step of index j fails during     *)
(* Migrate, Migrate returns the error of that step, schema and ledger are  *)
(* as they were when step j began, the steps of lower index stay applied   *)
(* and recorded, and no step of higher index was attempted.                *)
(***************************************************************************)
C3_MonotonicCommit ==
    \A p \in callers :
        (Returned(p, "Migrate") /\ ran[p] # <<>>
           /\ ran[p][Len(ran[p])][3] = "failed")
        => LET j == ran[p][Len(ran[p])][2]
           IN  /\ result[p] = Err("PerformMigration", j, At(migrations, j).Name, "")
               /\ ledger = step[p].ledger
               /\ schema = step[p].schema
               /\ ledger = PrefixLedger(migrations, j)
               /\ schema = 0..(j - 1)
               /\ \A n \in 1..Len(ran[p]) : ran[p][n][2] <= j
               /\ \A n \in 1..(Len(ran[p]) - 1) : ran[p][n][3] = "committed"

C3_Witness ==
    /\ Returned(1, "Migrate")
    /\ ran[1] = <<<<"forward", 0, "committed">>, <<"forward", 1, "failed">>>>
    /\ ledger = PrefixLedger(migrations, 1)

(***************************************************************************)
(* C4. Lock serialisation: while only Migrate calls run (no rollback has   *)
(* been committed), the forward step of an index is committed at most once *)
(* and never for an index that was already recorded, and no two callers    *)
(* hold uncommitted forward work for the same index.                       *)
(***************************************************************************)
C4_LockSerialisation ==
    (\A p \in callers : op[p].name # "Rollback")
    => /\ \A i \in Indices : fwdCommits[i] <= 1
       /\ \A p \in callers : \A n \in 1..Len(ran[p]) :
              ran[p][n][3] = "committed"
              => ran[p][n][2] \notin LedgerIndices(start[p].ledger)
       /\ \A p, q \in callers :
              (p # q /\ tx[p].effect = "forward" /\ tx[q].effect = "forward")
              => first[p] # first[q]

C4_Witness ==
    /\ Returned(1, "Migrate") /\ Returned(2, "Migrate")
    /\ result[1] = Nil /\ result[2] = Nil
    /\ op[1].len = MaxMigrations /\ op[2].len = MaxMigrations
    /\ ran[1] # <<>> /\ ran[2] # <<>>
    /\ \A i \in Indices : fwdCommits[i] = 1

(***************************************************************************)
(* C5. Migrate postcondition: from a ledger that is a valid prefix of      *)
(* length k0 of the list, when no database call fails, Migrate returns nil,*)
(* the ledger holds exactly the rows of the whole list, and exactly the    *)
(* forward steps k0 .. len-1 ran, each once, in that order.                *)
(***************************************************************************)
C5_MigratePostcondition ==
    \A p \in callers : \A k0 \in 0..op[p].len :
        (Returned(p, "Migrate")
           /\ start[p].ledger = PrefixLedger(ListOf(p), k0)
           /\ ~DatabaseFailed(p))
        => /\ result[p] = Nil
           /\ ledger = PrefixLedger(ListOf(p), op[p].len)
           /\ ran[p] = CommittedRun("forward", k0, op[p].len - 1)

C5_Witness ==
    /\ Returned(1, "Migrate")
    /\ op[1].len = MaxMigrations
    /\ start[1].ledger = PrefixLedger(migrations, 1)
    /\ result[1] = Nil
    /\ Len(ran[1]) = MaxMigrations - 1

(***************************************************************************)
(* C6. Rollback postcondition: from a ledger that is a valid prefix of     *)
(* length k, with 0 <= through <= k-1 and a Reverse declared for every     *)
(* index in through .. k-1, when no database call fails, Rollback returns  *)
(* nil, the ledger is the prefix of length through, and exactly the        *)
(* reverse steps k-1 .. through ran, each once, in that order.             *)
(***************************************************************************)
C6_RollbackPostcondition ==
    \A p \in callers : \A k \in 0..Len(migrations) :
        (Returned(p, "Rollback")
           /\ start[p].ledger = PrefixLedger(migrations, k)
           /\ 0 <= op[p].through /\ op[p].through <= k - 1
           /\ \A i \in op[p].through..(k - 1) :
                  At(migrations, i).Reverse = "inverse"
           /\ ~DatabaseFailed(p))
        => /\ result[p] = Nil
           /\ ledger = PrefixLedger(migrations, op[p].through)
           /\ ran[p] = CommittedRun("reverse", k - 1, op[p].through)

C6_Witness ==
    /\ Returned(1, "Rollback")
    /\ op[1].through = 0
    /\ start[1].ledger = PrefixLedger(migrations, MaxMigrations)
    /\ result[1] = Nil
    /\ Len(ran[1]) = MaxMigrations
    /\ ledger = {}

(***************************************************************************)
(* C7. Verifier exactness: on rows it has read, verifyMigrations returns k *)
(* and no error exactly when the rows are (i, list[i].Name) for i = 0..k-1;*)
(* in every other case it returns an error and the index -1.               *)
(***************************************************************************)
C7_VerifierExactness ==
    verified # Pending
    => LET isPrefix == \E k \in 0..Len(migrations) :
                           ExactPrefix(query.rows, migrations, k)
       IN  /\ query.errAt = -1 => (verified.err = Nil <=> isPrefix)
           /\ verified.err = Nil
              => ExactPrefix(query.rows, migrations, verified.first)
           /\ verified.err # Nil => verified.first = -1

C7_Witness ==
    /\ verified = Verdict(2, Nil)
    /\ Len(migrations) = MaxMigrations
    /\ migrations[1].Name # migrations[2].Name

(***************************************************************************)
(* C8. Verifier totality: for every rows and every declared list, the      *)
(* empty one included, verifyMigrations returns either no error and an     *)
(* index in 0 .. len(list), or -1 and one of its five errors.              *)
(***************************************************************************)
C8_VerifierTotality ==
    verified # Pending
    => \/ verified.err = Nil /\ verified.first \in 0..Len(migrations)
       \/ verified.err.kind \in VerifierErrors /\ verified.first = -1

C8_Witness ==
    /\ verified # Pending
    /\ migrations = <<>>
    /\ Len(query.rows) = MaxRows
    /\ query.rows[1].index = 0
    /\ verified.err.kind = "NoSuchMigration"

(***************************************************************************)
(* C9. Name mismatch: when the first deviating row of the ledger has the   *)
(* expected index e but not the name list[e].Name, a Migrate call whose    *)
(* database calls succeed returns NameMismatch with e, list[e].Name and    *)
(* the stored name, and no Migrate call changes the ledger or the schema.  *)
(***************************************************************************)
C9_NameMismatch ==
    \A p \in callers :
        LET rows == SelectOrdered(start[p].ledger)
            d == FirstDeviation(rows, ListOf(p))
        IN  (Returned(p, "Migrate") /\ d # 0 /\ d <= op[p].len
               /\ rows[d].index = d - 1)
            => /\ ledger = start[p].ledger
               /\ schema = start[p].schema
               /\ ran[p] = <<>>
               /\ result[p] # Nil
               /\ ~DatabaseFailed(p)
                  => result[p] = Err("NameMismatch", d - 1,
                                     ListOf(p)[d].Name, rows[d].name)

C9_Witness ==
    /\ Returned(1, "Migrate")
    /\ result[1] = Err("NameMismatch", 1, "b", "a")
    /\ Cardinality(ledger) = MaxRows

(***************************************************************************)
(* C10. Skipped migration: when the first deviating row of the ledger has  *)
(* an index r with expected < r < len(list), a Migrate call whose database *)
(* calls succeed returns MigrationSkipped with the expected index and      *)
(* list[expected].Name, and no Migrate call applies anything.              *)
(***************************************************************************)
C10_MigrationSkipped ==
    \A p \in callers :
        LET rows == SelectOrdered(start[p].ledger)
            d == FirstDeviation(rows, ListOf(p))
        IN  (Returned(p, "Migrate") /\ d # 0
               /\ d - 1 < rows[d].index /\ rows[d].index < op[p].len)
            => /\ ledger = start[p].ledger
               /\ schema = start[p].schema
               /\ ran[p] = <<>>
               /\ result[p] # Nil
               /\ ~DatabaseFailed(p)
                  => result[p] = Err("Skipped", d - 1, ListOf(p)[d].Name, "")

C10_Witness ==
    /\ Returned(1, "Migrate")
    /\ result[1] = Err("Skipped", 1, "b", "")
    /\ LedgerIndices(ledger) = {0, 2}

(***************************************************************************)
(* C11. Unknown migration: when the first deviating row of the ledger has  *)
(* an index r >= len(list), not below the expected index, the verifier     *)
(* fails with NoSuchMigration carrying r and the stored name, also when r  *)
(* is above the expected index; a Migrate call whose database calls        *)
(* succeed returns that error, and no Migrate call applies anything.       *)
(***************************************************************************)
C11_UnknownMigration ==
    \A p \in callers :
        LET rows == SelectOrdered(start[p].ledger)
            d == FirstDeviation(rows, ListOf(p))
        IN  (Returned(p, "Migrate") /\ d # 0
               /\ rows[d].index >= d - 1 /\ rows[d].index >= op[p].len)
            => LET e == Err("NoSuchMigration", rows[d].index, "", rows[d].name)
               IN  /\ verifyMigrations([rows |-> rows, errAt |-> -1], ListOf(p))
                        = Verdict(-1, e)
                   /\ ledger = start[p].ledger
                   /\ schema = start[p].schema
                   /\ ran[p] = <<>>
                   /\ result[p] # Nil
                   /\ ~DatabaseFailed(p) => result[p] = e

\* The row found is both past the end of the list and above the expected
\* index.
C11_Witness ==
    /\ Returned(1, "Migrate")
    /\ op[1].len = 2
    /\ LedgerIndices(start[1].ledger) = {0, 3}
    /\ result[1] = Err("NoSuchMigration", 3, "", "b")

(***************************************************************************)
(* C12. Duplicate or negative index: when the first deviating row that     *)
(* the verifier reads has an index below the expected one (negative, or    *)
(* seen before), the verifier returns -1 and NegativeOrDuplicate with that *)
(* index, for every declared list, the empty one included.                 *)
(***************************************************************************)
C12_NegativeOrDuplicate ==
    LET d == FirstDeviation(query.rows, migrations)
    IN  (verified # Pending /\ d # 0 /\ query.rows[d].index < d - 1
           /\ (query.errAt = -1 \/ query.errAt > d))
        => verified = Verdict(-1, Err("NegativeOrDuplicate",
                                      query.rows[d].index, "", ""))

\* A negative index under the empty list.
C12_Witness ==
    /\ verified # Pending
    /\ migrations = <<>>
    /\ Len(query.rows) >= 1
    /\ query.rows[1].index = -1
    /\ verified.err = Err("NegativeOrDuplicate", -1, "", "")

\* An index seen before.
C12_WitnessDuplicate ==
    /\ verified # Pending
    /\ Len(migrations) = MaxMigrations
    /\ Len(query.rows) = MaxRows
    /\ query.rows[2].index = 1
    /\ query.rows[3].index = 1
    /\ verified.err = Err("NegativeOrDuplicate", 1, "", "")

(***************************************************************************)
(* C13. Rollback range errors: on a ledger that is a valid prefix of       *)
(* length k (k = 0 when the migration table does not exist yet), a         *)
(* Rollback whose database calls succeed returns InvalidTarget when        *)
(* through < 0 and NotApplied when through > k - 1; no Rollback with such  *)
(* a target runs a reverse step, deletes a ledger row or changes the       *)
(* schema.  The call leaves the migration table in existence.              *)
(***************************************************************************)
RangeError(p) ==
    IF op[p].through < 0
    THEN Err("InvalidTarget", op[p].through, "", "")
    ELSE Err("NotApplied", op[p].through, "", "")

OutOfRange(p) ==
    /\ Returned(p, "Rollback")
    /\ \/ op[p].through < 0
       \/ op[p].through > Cardinality(start[p].ledger) - 1

C13_RollbackRangeErrors ==
    \A p \in callers :
        OutOfRange(p)
        => /\ ledger = start[p].ledger
           /\ schema = start[p].schema
           /\ ran[p] = <<>>
           /\ ~DatabaseFailed(p)
              => result[p] = RangeError(p) /\ tableExists

C13_Witness ==
    /\ Returned(1, "Rollback")
    /\ op[1].through = 2
    /\ result[1] = Err("NotApplied", 2, "", "")
    /\ ledger = PrefixLedger(migrations, 2)

\* The statement with "the database is as it was before the call" taken to
\* cover the migration table itself.
C13_NoStateChange ==
    \A p \in callers :
        OutOfRange(p)
        => /\ ledger = start[p].ledger
           /\ schema = start[p].schema
           /\ ran[p] = <<>>
           /\ tableExists = start[p].table
           /\ ~DatabaseFailed(p) => result[p] = RangeError(p)

(***************************************************************************)
(* C14. No reverse: from a ledger that is a valid prefix of length k, a    *)
(* Rollback through an index i < k whose Reverse is absent, when no        *)
(* database call fails, returns NoReverse for the highest index j in       *)
(* i .. k-1 whose Reverse is absent, after it has reversed and committed   *)
(* the steps k-1 .. j+1: ledger and schema are left as the prefix of       *)
(* length j+1, and are untouched exactly when j = k-1.                     *)
(***************************************************************************)
\* The highest index in through .. k-1 whose Reverse is absent.
TopWithoutReverse(through, k) ==
    LET none == {j \in through..(k - 1) : At(migrations, j).Reverse = "none"}
    IN  CHOOSE j \in none : \A j2 \in none : j2 <= j

\* Rollback through an applied index whose Reverse is absent has returned.
RollbackToNoReverse(p, k) ==
    /\ Returned(p, "Rollback")
    /\ start[p].ledger = PrefixLedger(migrations, k)
    /\ 0 <= op[p].through /\ op[p].through <= k - 1
    /\ At(migrations, op[p].through).Reverse = "none"

C14_NoReverse ==
    \A p \in callers : \A k \in 0..Len(migrations) :
        (RollbackToNoReverse(p, k) /\ ~DatabaseFailed(p))
        => LET j == TopWithoutReverse(op[p].through, k)
           IN  /\ result[p] = Err("NoReverse", j, At(migrations, j).Name, "")
               /\ ledger = PrefixLedger(migrations, j + 1)
               /\ schema = 0..j
               /\ ran[p] = CommittedRun("reverse", k - 1, j + 1)
               /\ j = k - 1 <=> (ledger = start[p].ledger
                                   /\ schema = start[p].schema)

\* Two steps are reversed before the missing Reverse is met.
C14_Witness ==
    /\ RollbackToNoReverse(1, MaxMigrations)
    /\ op[1].through = 0
    /\ result[1] = Err("NoReverse", 0, "a", "")
    /\ ledger = PrefixLedger(migrations, 1)
    /\ Len(ran[1]) = 2

\* The statement as made: NoReverse for the target itself, nothing touched.
C14_Untouched ==
    \A p \in callers : \A k \in 0..Len(migrations) :
        (RollbackToNoReverse(p, k) /\ ~DatabaseFailed(p))
        => /\ result[p] = Err("NoReverse", op[p].through,
                              At(migrations, op[p].through).Name, "")
           /\ ledger = start[p].ledger
           /\ schema = start[p].schema

(***************************************************************************)
(* C15. Apply order: the forward steps a Migrate call executes are those   *)
(* of the indices k0, k0+1, ... in that order, k0 being the first          *)
(* unapplied index at the call, none skipped, none repeated, and only the  *)
(* last one can have failed; every forward step that is committed, in      *)
(* whichever call, is the step of the first unapplied index and makes the  *)
(* next index the first unapplied one; as long as no reverse step has been *)
(* committed no index is committed twice.                                  *)
(***************************************************************************)
\* Caller p commits a forward step in this transition.
ForwardCommit(p) ==
    /\ Len(ran'[p]) = Len(ran[p]) + 1
    /\ ran'[p][Len(ran'[p])][1] = "forward"
    /\ ran'[p][Len(ran'[p])][3] = "committed"

C15_ApplyOrder ==
    /\ [](\A p \in callers :
              op[p].name = "Migrate"
              => \A n \in 1..Len(ran[p]) :
                     /\ ran[p][n][1] = "forward"
                     /\ ran[p][n][2] = Cardinality(start[p].ledger) + n - 1
                     /\ n < Len(ran[p]) => ran[p][n][3] = "committed")
    /\ []((\A i \in Indices : revCommits[i] = 0)
              => /\ \A i \in Indices : fwdCommits[i] <= 1
                 /\ {i \in Indices : fwdCommits[i] = 1} = LedgerIndices(ledger))
    /\ [][\A p \in callers :
              ForwardCommit(p)
              => LET i == ran'[p][Len(ran'[p])][2]
                 IN  /\ ledger = PrefixLedger(migrations, i)
                     /\ ledger' = PrefixLedger(migrations, i + 1)
                     /\ schema' = schema \cup {i}]_vars

\* Two Migrate calls in a row: the second one, given the whole list,
\* continues at index 1 where the first one stopped.
C15_Witness ==
    /\ Returned(1, "Migrate")
    /\ calls[1] = MaxCalls - 2
    /\ \A i \in Indices : revCommits[i] = 0 /\ fwdCommits[i] = 1
    /\ start[1].ledger = PrefixLedger(migrations, 1)
    /\ ran[1] = CommittedRun("forward", 1, MaxMigrations - 1)

(***************************************************************************)
(* C16. Rollback order: the reverse steps a Rollback(through) call         *)
(* executes are those of the indices top, top-1, ... in that order, never  *)
(* below through, and down to through when the call returns nil; every     *)
(* reverse step that is committed is the step of the highest index in the  *)
(* ledger and its commit removes that one row and that one step's effect.  *)
(***************************************************************************)
\* Caller p commits a reverse step in this transition.
ReverseCommit(p) ==
    /\ Len(ran'[p]) = Len(ran[p]) + 1
    /\ ran'[p][Len(ran'[p])][1] = "reverse"
    /\ ran'[p][Len(ran'[p])][3] = "committed"

C16_RollbackOrder ==
    /\ [](\A p \in callers :
              op[p].name = "Rollback"
              => LET top == Cardinality(start[p].ledger) - 1
                 IN  /\ \A n \in 1..Len(ran[p]) :
                            /\ ran[p][n][1] = "reverse"
                            /\ ran[p][n][2] = top - n + 1
                            /\ ran[p][n][2] >= op[p].through
                            /\ n < Len(ran[p]) => ran[p][n][3] = "committed"
                     /\ (Returned(p, "Rollback") /\ result[p] = Nil)
                        => ran[p] = CommittedRun("reverse", top, op[p].through))
    /\ [][\A p \in callers :
              ReverseCommit(p)
              => LET i == ran'[p][Len(ran'[p])][2]
                 IN  /\ \A r \in ledger : r.index <= i
                     /\ ledger = PrefixLedger(migrations, i + 1)
                     /\ ledger' = PrefixLedger(migrations, i)
                     /\ schema' = schema \ {i}]_vars

C16_Witness ==
    /\ Returned(1, "Rollback")
    /\ op[1].through = 1
    /\ result[1] = Nil
    /\ ran[1] = CommittedRun("reverse", MaxMigrations - 1, 1)
    /\ ledger = PrefixLedger(migrations, 1)

(***************************************************************************)
(* C17. Engine round trip: with every Reverse the inverse of its forward   *)
(* step, a Migrate that returns nil from a valid prefix of length          *)
(* k0 < len(list), followed by a Rollback(through = k0) that returns nil,  *)
(* leaves the ledger and the schema exactly as they were before the        *)
(* Migrate.                                                                *)
(***************************************************************************)
\* Rollback(through = k0) has returned nil, right after a Migrate that
\* returned nil from a valid prefix of length k0 of its list.
RoundTrip(p, k0) ==
    /\ Returned(p, "Rollback")
    /\ result[p] = Nil
    /\ op[p].through = k0
    /\ start[p].prev.name = "Migrate"
    /\ start[p].prev.ok
    /\ k0 < start[p].prev.len
    /\ start[p].prev.ledger = PrefixLedger(migrations, k0)

C17_EngineRoundTrip ==
    \A p \in callers : \A k0 \in Indices :
        RoundTrip(p, k0)
        => /\ start[p].ledger = PrefixLedger(migrations, start[p].prev.len)
           /\ start[p].schema = 0..(start[p].prev.len - 1)
           /\ ledger = start[p].prev.ledger
           /\ schema = start[p].prev.schema

\* From the empty ledger: the whole list applied, the whole list reversed.
C17_Witness ==
    /\ RoundTrip(1, 0)
    /\ start[1].prev.len = MaxMigrations
    /\ Len(ran[1]) = MaxMigrations
    /\ ledger = {}
    /\ schema = {}

\* From a prefix of length 1.
C17_WitnessFromPrefix ==
    /\ RoundTrip(1, 1)
    /\ start[1].prev.len = MaxMigrations
    /\ start[1].prev.schema = {0}
    /\ schema = {0}

(***************************************************************************)
(* C18. SchemaTest precondition: on a database that holds a user relation, *)
(* SchemaTest touches nothing: it makes no call of Migrate or Rollback,    *)
(* creates no migration table and takes no dump, and once its              *)
(* configuration is accepted, the connection made and the catalog read, it *)
(* returns NonEmptyDatabase.                                               *)
(***************************************************************************)
\* The database holds a user relation and SchemaTest has made no call of
\* the engine so far (the database is as SchemaTest found it).
FoundNotEmpty ==
    /\ st.pc # "off"
    /\ calls[1] = SchemaTestCalls
    /\ schema # {} \/ tableExists

C18_SchemaTestPrecondition ==
    /\ [](FoundNotEmpty
          => /\ st.pc \in {"open", "noTables", "done"}
             /\ st.dumps = 0
             /\ pc[1] = "idle"
             /\ st.pc = "done"
                => st.err.kind \in {"Config", "Connect", "CheckTables",
                                    "NonEmptyDatabase"})
    /\ [][FoundNotEmpty
          => /\ UNCHANGED <<tableExists, ledger, schema, calls, ran, op>>
             /\ st.pc = "noTables"
                => st'.err.kind \in {"CheckTables", "NonEmptyDatabase"}]_vars

C18_Witness ==
    /\ st.pc = "done"
    /\ st.err.kind = "NonEmptyDatabase"
    /\ schema = {Stray}
    /\ ~tableExists
    /\ calls[1] = SchemaTestCalls
    /\ Len(migrations) = MaxMigrations

(***************************************************************************)
(* C19. SchemaTest phase 1: the first comparison SchemaTest makes is that  *)
(* of the dump S0 taken before Migrate of the full list with the dump S2   *)
(* taken after Rollback through index 0; when they differ SchemaTest       *)
(* returns an error without entering phase 2, and phase 2 and the result   *)
(* nil are reached only with S0 = S2.                                      *)
(***************************************************************************)
\* The record of the phase 1 comparison, once it has been made.
Phase1Compared == Len(st.log) >= 1

NotRestoring(j) == At(migrations, j).Reverse \in {"leaky", "covered"}

SchemaTestReturned == st.pc = "done"

\* The dump of the schema to which exactly the first i migrations are
\* applied.
PrefixDump(i) ==
    [schema |-> 0..(i - 1), table |-> TRUE, key |-> "key"]

\* With nil returned, every B_i was compared with R_i and was equal to it.
NilOnlyIfRestored ==
    (SchemaTestReturned /\ st.err = Nil)
    => /\ Len(st.log) = Len(migrations) + 1
       /\ \A i \in 0..(Len(migrations) - 1) :
              /\ st.log[i + 2] = [phase |-> 2, to |-> i, through |-> i,
                                  before |-> PrefixDump(i),
                                  rolledBack |-> PrefixDump(i)]
              /\ ~NotRestoring(i)

C20_SchemaTestInverseLaw ==
    /\ NilOnlyIfRestored
    /\ (SchemaTestReturned
          /\ \E j \in 0..(Len(migrations) - 1) : NotRestoring(j))
       => st.err # Nil
    /\ (SchemaTestReturned /\ st.err.kind = "RollbackMismatch")
       => IF st.phase = 2
          THEN /\ NotRestoring(st.to)
               /\ st.err = Err("RollbackMismatch", st.to,
                               At(migrations, st.to).Name, "")
          ELSE /\ \E j \in 0..(Len(migrations) - 1) : NotRestoring(j)
               /\ st.err = Err("RollbackMismatch", 0,
                               At(migrations, 0).Name, "")

\* A residue that the rollback of the whole list clears is found in phase
\* 2, at the index of the migration that leaves it.
C20_Witness ==
    /\ SchemaTestReturned
    /\ st.phase = 2
    /\ st.err = Err("RollbackMismatch", 2, "a", "")
    /\ At(migrations, 2).Reverse = "covered"
    /\ Len(st.log) = 4

\* The statement as made: the mismatch error names a migration whose
\* Reverse does not restore the schema.
C20_NamesTheMigration ==
    /\ NilOnlyIfRestored
    /\ (SchemaTestReturned
          /\ \E j \in 0..(Len(migrations) - 1) : NotRestoring(j))
       => st.err # Nil
    /\ (SchemaTestReturned /\ st.err.kind = "RollbackMismatch")
       => \E j \in 0..(Len(migrations) - 1) :
              NotRestoring(j) /\ st.err.name = At(migrations, j).Name

(***************************************************************************)
(* C21. SchemaTest idempotence law: SchemaTest returns nil only when, for  *)
(* every index i, the dump A_i' taken after applying the prefix 0..i once  *)
(* more after the rollback of i equals the dump A_i taken after it was     *)
(* applied the first time; when the second application of some migration   *)
(* gives another schema than the first, SchemaTest returns an error.       *)
(***************************************************************************)
\* Migration j gives another schema when it is applied again.
NotRepeatable(j) == At(migrations, j).Migration = "drifting"

\* With nil returned, every A_i was compared with A_i' and was equal to it.
NilOnlyIfRepeated ==
    (SchemaTestReturned /\ st.err = Nil)
    => /\ Len(st.relog) = Len(migrations)
       /\ \A i \in 0..(Len(migrations) - 1) :
              /\ st.relog[i + 1] = [to |-> i, after |-> PrefixDump(i + 1),
                                    again |-> PrefixDump(i + 1)]
              /\ ~NotRepeatable(i)

C21_SchemaTestIdempotenceLaw ==
    /\ NilOnlyIfRepeated
    /\ (SchemaTestReturned
          /\ \E j \in 0..(Len(migrations) - 1) : NotRepeatable(j))
       => st.err # Nil
    /\ (SchemaTestReturned /\ st.err.kind = "RemigrateMismatch")
       => /\ NotRepeatable(st.to)
          /\ st.relog[Len(st.relog)].after # st.relog[Len(st.relog)].again
    /\ \A n \in 1..Len(st.relog) :
          (st.relog[n].after # st.relog[n].again)
          => /\ n = Len(st.relog)
             /\ SchemaTestReturned
             /\ st.err.kind = "RemigrateMismatch"

\* The second migration of the list is the one that drifts: the test passes
\* it in phase 1 and the first migration in phase 2, and fails on it.
C21_Witness ==
    /\ SchemaTestReturned
    /\ st.err = Err("RemigrateMismatch", 1, "b", "")
    /\ NotRepeatable(1)
    /\ ~NotRepeatable(0)
    /\ Len(st.relog) = 2
    /\ st.relog[2].after # st.relog[2].again

(***************************************************************************)
(* C22. Ledger table lifecycle: the migration table is created by the      *)
(* ensure step of Migrate and Rollback, and only by it and only when the   *)
(* table does not exist; a caller that is past the ensure step has the     *)
(* table; when the table exists the ensure step changes nothing in the     *)
(* database and goes on to the first transaction; and no step of the       *)
(* engine drops the table, so once it exists it exists in every later      *)
(* state.                                                                  *)
(***************************************************************************)
\* p is past ensureMigrationsTableExists, in migrateOne or rollbackOne.
PastEnsure(p) == p \in callers /\ pc[p] \notin {"idle", "ensure", "create"}

\* p takes a step of ensureMigrationsTableExists.
EnsureStep(p) == pc[p] \in {"ensure", "create"} /\ pc'[p] # pc[p]

C22_TableLifecycle ==
    /\ [](\A p \in Callers : PastEnsure(p) => tableExists)
    /\ [][/\ tableExists => tableExists'
          /\ (~tableExists /\ tableExists')
             => /\ \E p \in Callers : pc[p] = "create" /\ pc'[p] = "begin"
                /\ ledger' = ledger
                /\ schema' = schema
          /\ \A p \in Callers :
                (EnsureStep(p) /\ tableExists)
                => /\ UNCHANGED dbVars
                   /\ pc[p] = "ensure" => pc'[p] \in {"begin", "idle"}
                   /\ pc'[p] = "idle" => DatabaseFailed(p)'
          /\ \A p \in Callers :
                (EnsureStep(p) /\ ~tableExists /\ ~DatabaseFailed(p)')
                => \/ pc[p] = "ensure" /\ pc'[p] = "create"
                   \/ pc[p] = "create" /\ tableExists'
         ]_vars

\* One caller's Rollback created the table and found nothing to roll back;
\* the other caller's Migrate found the table and is in its transaction.
C22_Witness ==
    /\ Returned(1, "Rollback")
    /\ ~start[1].table
    /\ result[1].kind = "NotApplied"
    /\ tableExists
    /\ PastEnsure(2)
    /\ start[2].table
    /\ ledger # {}

(***************************************************************************)
(* C23. Listener close callback: when Listen has started its goroutine     *)
(* (the call that returns nil), onClose, if one is given, is invoked       *)
(* exactly once, on each way out of the goroutine's loop (context          *)
(* cancelled at the select on events, context cancelled in a reconnect     *)
(* backoff, Notify channel closed), and not while the goroutine is in its  *)
(* loop; a call of Listen that returns an error starts no goroutine and    *)
(* never invokes it.                                                       *)
(***************************************************************************)
\* The goroutine is in its loop.
InLoop == ln.pc \in {"select", "rebuild", "backoff"}

\* The goroutine has left its loop and is past the call of onClose.
PastOnClose == ln.pc \in {"closing", "exited"}

ExitPaths == {"ctxSelect", "ctxBackoff", "notifyClosed"}

C23_OnCloseOnce ==
    /\ ln.onCloseCalls <= 1
    /\ (InLoop \/ ln.pc = "deferred") => ln.onCloseCalls = 0
    /\ PastOnClose => /\ ln.onCloseCalls = IF ln.onClose THEN 1 ELSE 0
                      /\ ln.path \in ExitPaths
                      /\ ln.returned \in {"pending", "nil"}
    /\ ln.returned = "nil" => (InLoop \/ ln.pc = "deferred" \/ PastOnClose)
    /\ ln.returned = "error" => ln.onCloseCalls = 0 /\ ln.pc = "none"
    /\ ln.pc = "exited" => ln.openListeners = 0

\* The goroutine was cancelled in the backoff of a reconnect that failed
\* twice, after it had handed a notification to callback.
C23_Witness ==
    /\ ln.pc = "exited"
    /\ ln.returned = "nil"
    /\ ln.onClose
    /\ ln.onCloseCalls = 1
    /\ ln.path = "ctxBackoff"
    /\ ln.backoff = 2
    /\ ln.delivered > 0

(***************************************************************************)
(* C24. Migrate idempotence: a call of Migrate that starts on a ledger     *)
(* holding exactly the list it is given runs no forward step, inserts no   *)
(* row, leaves ledger and schema as they are, and returns nil when no      *)
(* database call fails; so a Migrate that follows a successful Migrate of  *)
(* the same list leaves the database as the first one left it.             *)
(***************************************************************************)
\* p is in, or has returned from, a Migrate that started on a ledger equal
\* to its list.
MigrateOnFullLedger(p) ==
    /\ p \in callers
    /\ op[p].name = "Migrate"
    /\ start[p].ledger = PrefixLedger(ListOf(p), op[p].len)

\* The call p made before this one was a Migrate of the same list that
\* returned nil.
MigrateAfterMigrate(p) ==
    /\ p \in callers
    /\ op[p].name = "Migrate"
    /\ start[p].prev.name = "Migrate"
    /\ start[p].prev.len = op[p].len
    /\ start[p].prev.ok

C24_MigrateIdempotence ==
    \A p \in Callers :
        /\ MigrateOnFullLedger(p)
           => /\ ledger = start[p].ledger
              /\ schema = start[p].schema
              /\ ran[p] = <<>>
              /\ pc[p] \notin {"apply", "record", "commit"}
              /\ ~tx[p].wrote
              /\ (Returned(p, "Migrate") /\ ~DatabaseFailed(p))
                 => result[p] = Nil
        /\ MigrateAfterMigrate(p)
           => /\ MigrateOnFullLedger(p)
              /\ start[p].schema = 0..(op[p].len - 1)

\* Migrate of the whole list, twice; both return nil.
C24_Witness ==
    /\ Returned(1, "Migrate")
    /\ MigrateAfterMigrate(1)
    /\ op[1].len = MaxMigrations
    /\ start[1].prev.ledger = {}
    /\ result[1] = Nil
    /\ ledger = PrefixLedger(migrations, MaxMigrations)

(***************************************************************************)
(* C25. Ledger frame: the committed ledger changes only when an apply-one  *)
(* or a rollback-one step commits; a committed apply-one step adds exactly *)
(* one row, (i, list[i].Name) with i the first unapplied index, and a      *)
(* committed rollback-one step removes exactly one row, the one of the top *)
(* index; every other row stays as it is, and no step changes the name of  *)
(* a row that stays.                                                       *)
(***************************************************************************)
\* The index of the step p commits in this transition.
CommittedIndex(p) == ran'[p][Len(ran'[p])][2]

LedgerInsert(p) ==
    LET i == CommittedIndex(p)
    IN  /\ ForwardCommit(p)
        /\ i = Cardinality(ledger)
        /\ \A r \in ledger : r.index < i
        /\ ledger' = ledger \cup {Row(i, At(ListOf(p), i).Name)}
        /\ Cardinality(ledger') = Cardinality(ledger) + 1

LedgerDelete(p) ==
    LET i == CommittedIndex(p)
    IN  /\ ReverseCommit(p)
        /\ \A r \in ledger : r.index <= i
        /\ \E r \in ledger : r.index = i /\ ledger' = ledger \ {r}
        /\ Cardinality(ledger') = Cardinality(ledger) - 1

C25_LedgerFrame ==
    [][/\ ledger' # ledger
          => \E p \in callers : LedgerInsert(p) \/ LedgerDelete(p)
       /\ \A p \in callers :
             /\ ForwardCommit(p) => LedgerInsert(p)
             /\ ReverseCommit(p) => LedgerDelete(p)
       /\ \A r \in ledger' :
             (\E r0 \in ledger : r0.index = r.index) => r \in ledger
      ]_vars

\* One caller's Migrate has added rows and the other caller's Rollback has
\* removed two of them again.
C25_Witness ==
    /\ Returned(1, "Rollback")
    /\ result[1] = Nil
    /\ Len(ran[1]) = 2
    /\ Returned(2, "Migrate")
    /\ Len(ran[2]) >= 1
    /\ ran[2][1][3] = "committed"
    /\ ledger = PrefixLedger(migrations, 1)

(***************************************************************************)
(* C26. Transaction closure: a transaction is open only inside migrateOne  *)
(* and rollbackOne; every path of these functions that has begun one ends  *)
(* it exactly once before it returns: by tx.Commit() when the step         *)
(* succeeds, by the deferred tx.Rollback() on the error paths (lock        *)
(* failure, verifier error, range error, missing reverse, step failure,    *)
(* ledger write failure), and by the failed tx.Commit() itself when the    *)
(* commit fails, after which tx.Rollback() is not called.                  *)
(***************************************************************************)
\* The statements of migrateOne and rollbackOne after db.Beginx().
InTransaction ==
    {"lock", "verify", "apply", "record", "commit", "reverse", "delete",
     "commitReverse"}

\* p has begun a transaction at some time.
HasBegun(p) == step[p] # NoSnapshot

\* The errors migrateOne and rollbackOne return after db.Beginx() other
\* than the error of tx.Commit().
ErrorsBeforeCommit ==
    (VerifierErrors \cup DatabaseErrors \cup
         {"InvalidTarget", "NotApplied", "NoReverse"})
        \ {"CheckTable", "CreateTable", "BeginTx", "Commit"}

\* Every transaction is ended exactly once and none is left open.
EndedOnce(p) ==
    /\ tx[p].open <=> pc[p] \in InTransaction
    /\ tx[p].open => tx[p].ends = <<>>
    /\ (HasBegun(p) /\ ~tx[p].open) => Len(tx[p].ends) = 1
    /\ ~HasBegun(p) => tx[p] = NoTx
    /\ lockHolder = p => tx[p].open

C26_TransactionClosure ==
    \A p \in callers :
        /\ EndedOnce(p)
        /\ (pc[p] = "begin" /\ ran[p] # <<>>) => tx[p].ends = <<"Commit">>
        /\ (Returned(p, "Rollback") /\ result[p] = Nil)
           => tx[p].ends = <<"Commit">>
        /\ (pc[p] = "idle" /\ result[p].kind \in ErrorsBeforeCommit)
           => tx[p].ends = <<"Rollback">>
        /\ (pc[p] = "idle" /\ result[p].kind = "Commit")
           => tx[p].ends = <<"CommitFailed">>

\* The second step of a Migrate fails at tx.Commit().
C26_Witness ==
    /\ Returned(1, "Migrate")
    /\ result[1].kind = "Commit"
    /\ tx[1].ends = <<"CommitFailed">>
    /\ ran[1] = <<<<"forward", 0, "committed">>, <<"forward", 1, "aborted">>>>
    /\ ledger = PrefixLedger(migrations, 1)

\* The statement as made: tx.Rollback() ends the transaction on every error
\* path, the failure of tx.Commit() among them.
C26_RollbackOnEveryError ==
    \A p \in callers :
        /\ EndedOnce(p)
        /\ (pc[p] = "idle"
              /\ result[p].kind \in ErrorsBeforeCommit \cup {"Commit"})
           => tx[p].ends = <<"Rollback">>

(***************************************************************************)
(* C27. Apply-one with nothing to apply: when the verifier reports         *)
(* firstUnappliedIndex = len(list), migrateOne reports that nothing was    *)
(* migrated and Migrate returns nil; the transaction of that step, in      *)
(* which nothing was written, is ended by the deferred tx.Rollback() and   *)
(* not by a commit, and ledger and schema are what they were when it       *)
(* began.                                                                  *)
(***************************************************************************)
\* The last step of p's Migrate found the ledger equal to the list.
NothingToApply(p) ==
    /\ Returned(p, "Migrate")
    /\ ~DatabaseFailed(p)
    /\ HasBegun(p)
    /\ step[p].ledger = PrefixLedger(ListOf(p), op[p].len)

C27_NothingToApply ==
    \A p \in callers :
        /\ NothingToApply(p) => result[p] = Nil
        /\ (Returned(p, "Migrate") /\ result[p] = Nil)
           => /\ NothingToApply(p)
              /\ tx[p].ends = <<"Rollback">>
              /\ ~tx[p].committed
              /\ ~tx[p].open
              /\ ledger = step[p].ledger
              /\ schema = step[p].schema
              /\ \A n \in 1..Len(ran[p]) : ran[p][n][3] = "committed"

\* Migrate applies the whole list and then finds nothing more to apply.
C27_Witness ==
    /\ Returned(1, "Migrate")
    /\ result[1] = Nil
    /\ ran[1] = CommittedRun("forward", 0, MaxMigrations - 1)
    /\ tx[1].ends = <<"Rollback">>
    /\ ledger = PrefixLedger(migrations, MaxMigrations)

\* The statement as made: the transaction of that step is committed.
C27_Committed ==
    \A p \in callers :
        (Returned(p, "Migrate") /\ result[p] = Nil)
        => /\ NothingToApply(p)
           /\ tx[p].ends = <<"Commit">>

(***************************************************************************)
(* C28. Lock and read scoping: in every apply-one and rollback-one step    *)
(* the lock on the migration table is taken before the ledger is read; the *)
(* read, the insert or delete it guards and the commit happen in one       *)
(* transaction that holds the lock throughout, so the ledger is still what *)
(* was read when the step commits; and the lock goes when that transaction *)
(* ends, so it is not held between two steps of a Migrate or Rollback      *)
(* loop.                                                                   *)
(***************************************************************************)
\* The statements of a step from the read of the ledger to the commit.
AfterLock == InTransaction \ {"lock"}

\* The statements of a step after the read of the ledger.
AfterRead == AfterLock \ {"verify"}

C28_LockScoping ==
    /\ [](\A p \in callers :
             /\ pc[p] \in AfterLock <=> lockHolder = p
             /\ pc[p] \in AfterLock => tx[p].open /\ tx[p].ends = <<>>
             /\ pc[p] \in AfterRead
                => /\ first[p] = Cardinality(ledger)
                   /\ ledger = PrefixLedger(ListOf(p), first[p]))
    /\ [][\A p \in callers :
             /\ (lockHolder' = p /\ lockHolder # p)
                => /\ lockHolder = 0
                   /\ pc[p] = "lock" /\ pc'[p] = "verify"
                   /\ tx[p].open
             /\ (lockHolder = p /\ tx[p].open /\ ~tx'[p].open)
                => lockHolder' = 0
             /\ (lockHolder = p /\ ledger' # ledger)
                => /\ pc[p] \in {"commit", "commitReverse"}
                   /\ tx'[p].ends = <<"Commit">>
             /\ ledger' # ledger => lockHolder # 0
         ]_vars

\* One caller is waiting for the lock in its second step while the other
\* holds it after the read; the first step of the waiting caller is
\* committed.
C28_Witness ==
    /\ pc[1] = "lock"
    /\ Len(ran[1]) = 1
    /\ ran[1][1][3] = "committed"
    /\ pc[2] \in AfterRead
    /\ lockHolder = 2
    /\ first[2] = Cardinality(ledger)

(***************************************************************************)
(* C29. Termination with a single caller: a Migrate that starts on a valid *)
(* prefix of length k0 <= len(list) begins at most len(list)-k0            *)
(* transactions that apply a migration and one more that finds nothing to  *)
(* apply; a Rollback(through) with 0 <= through < k0 begins at most        *)
(* k0-through transactions; the n-th transaction of a call finds the first *)
(* unapplied index n-1 steps from where the call started, towards the      *)
(* target; and every call returns.                                         *)
(***************************************************************************)
\* The length of the ledger when p's call started.
StartLength(p) == Cardinality(start[p].ledger)

MigrateFromPrefix(p) ==
    /\ p \in callers
    /\ op[p].name = "Migrate"
    /\ StartLength(p) <= op[p].len

RollbackFromPrefix(p) ==
    /\ p \in callers
    /\ op[p].name = "Rollback"
    /\ 0 <= op[p].through
    /\ op[p].through < StartLength(p)

C29_Termination ==
    /\ [](\A p \in callers :
             /\ MigrateFromPrefix(p)
                => /\ tx[p].seq <= op[p].len - StartLength(p) + 1
                   /\ pc[p] \in {"apply", "record", "commit"}
                      => tx[p].seq <= op[p].len - StartLength(p)
                   /\ pc[p] \in AfterRead
                      => first[p] = StartLength(p) + tx[p].seq - 1
             /\ RollbackFromPrefix(p)
                => /\ tx[p].seq <= StartLength(p) - op[p].through
                   /\ pc[p] \in AfterRead
                      => /\ first[p] = StartLength(p) - tx[p].seq + 1
                         /\ first[p] > op[p].through)
    /\ \A p \in Callers : (pc[p] # "idle") ~> (pc[p] = "idle")

\* A Rollback through 0 from the whole list has returned nil after
\* MaxMigrations transactions.
C29_Witness ==
    /\ Returned(1, "Rollback")
    /\ op[1].through = 0
    /\ StartLength(1) = MaxMigrations
    /\ tx[1].seq = MaxMigrations
    /\ result[1] = Nil
    /\ start[1].prev.name = "Migrate"
    /\ start[1].prev.ledger = {}

(***************************************************************************)
(* C30. Static migration execution: StaticMigration.DoMigration executes   *)
(* its statements in list order, each once; it stops at the first          *)
(* statement that fails and returns the error of that statement, with no   *)
(* later statement executed; it returns nil only when every statement was  *)
(* executed and none failed; on an empty list it returns nil and executes  *)
(* nothing.                                                                *)
(***************************************************************************)
StaticReturned == sm.pc = "returned"

C30_StaticExecution ==
    /\ Len(sm.executed) <= Len(sm.m)
    /\ sm.executed = SubSeq(sm.m, 1, Len(sm.executed))
    /\ sm.pc = "range" => /\ sm.failed = {}
                          /\ Len(sm.executed) = sm.next - 1
    /\ (StaticReturned /\ sm.result # Nil)
       => /\ sm.executed # <<>>
          /\ sm.failed = {Len(sm.executed)}
          /\ sm.result = Err("Exec", Len(sm.executed), "",
                             sm.m[Len(sm.executed)])
    /\ (StaticReturned /\ sm.result = Nil)
       => /\ sm.executed = sm.m
          /\ sm.failed = {}
    /\ (StaticReturned /\ sm.failed = {}) => sm.result = Nil
    /\ (StaticReturned /\ sm.m = <<>>)
       => sm.result = Nil /\ sm.executed = <<>>

\* The second of four statements fails: the first two were executed, the
\* last two were not.
C30_Witness ==
    /\ StaticReturned
    /\ Len(sm.m) = MaxStatements
    /\ sm.executed = SubSeq(sm.m, 1, 2)
    /\ sm.failed = {2}
    /\ sm.result.kind = "Exec"

(***************************************************************************)
(* C31. SchemaTest phase-2 progression: at the start of iteration i the    *)
(* ledger holds exactly the prefix 0..i-1; the Migrate of list[0..i] runs  *)
(* only the forward step of i, the Rollback through i only the reverse     *)
(* step of i, and the second Migrate only the forward step of i again, so  *)
(* that after iteration i the ledger holds exactly 0..i; and when          *)
(* SchemaTest returns nil the ledger holds all the migrations of the list. *)
(***************************************************************************)
\* Phase 2 is at the call made at `site`, which is in progress or has
\* returned and not been looked at yet.
Phase2Call(site) ==
    /\ st.phase = 2
    /\ st.pc = site
    /\ calls[1] = st.mark - 1

\* Phase 2 is at the dump that follows the call made at `site`, which
\* returned nil.
Phase2After(site) ==
    /\ st.phase = 2
    /\ st.pc = CASE site = "migrate" -> "dumpAfter"
                 [] site = "rollback" -> "dumpRollback"
                 [] OTHER -> "dumpAgain"

\* Every step the call has run is the step `effect` of migration i.
OnlyStep(effect, i) ==
    \A n \in 1..Len(ran[1]) : ran[1][n][1] = effect /\ ran[1][n][2] = i

\* The call ran the step `effect` of migration i, committed it, and
\* nothing else.
OneStep(effect, i) == ran[1] = <<<<effect, i, "committed">>>>

C31_Phase2Progression ==
    /\ (st.phase = 2 /\ st.pc \in {"dumpBefore", "migrate"}
          /\ calls[1] = st.mark)
       => ledger = PrefixLedger(migrations, st.to)
    /\ \A site \in {"migrate", "again"} :
          /\ Phase2Call(site)
             => /\ op[1] = [name |-> "Migrate", len |-> st.to + 1,
                            through |-> -1]
                /\ start[1].ledger = PrefixLedger(migrations, st.to)
                /\ OnlyStep("forward", st.to)
          /\ Phase2After(site)
             => /\ OneStep("forward", st.to)
                /\ ledger = PrefixLedger(migrations, st.to + 1)
    /\ Phase2Call("rollback")
       => /\ op[1] = [name |-> "Rollback", len |-> Len(migrations),
                      through |-> st.to]
          /\ start[1].ledger = PrefixLedger(migrations, st.to + 1)
          /\ OnlyStep("reverse", st.to)
    /\ (Phase2After("rollback") \/ (st.phase = 2 /\ st.pc = "again"
                                      /\ calls[1] = st.mark))
       => /\ OneStep("reverse", st.to)
          /\ ledger = PrefixLedger(migrations, st.to)
    /\ (SchemaTestReturned /\ st.err = Nil)
       => ledger = PrefixLedger(migrations, Len(migrations))

\* SchemaTest has returned nil on a list of MaxMigrations migrations, the
\* last step run being the second application of the last migration.
C31_Witness ==
    /\ SchemaTestReturned
    /\ st.err = Nil
    /\ Len(migrations) = MaxMigrations
    /\ st.to = MaxMigrations - 1
    /\ OneStep("forward", MaxMigrations - 1)
    /\ ledger = PrefixLedger(migrations, MaxMigrations)
    /\ fwdCommits[0] = 3
    /\ revCommits[0] = 2

(***************************************************************************)
(* C32. SchemaTest abort on first failure: as soon as a dump, a Migrate, a *)
(* Rollback or a comparison of two dumps fails, SchemaTest returns the     *)
(* error of that step and makes no further dump, Migrate or Rollback; it   *)
(* cleans nothing up, so the database stays as the failing step left it.   *)
(***************************************************************************)
\* The statements of SchemaTest that take a dump.
STDumpSites == {"dumpBefore", "dumpAfter", "dumpRollback", "dumpAgain"}

\* The call SchemaTest made has returned an error, which SchemaTest has not
\* looked at yet.
STCallFailed ==
    /\ st.pc \in STCallSites
    /\ calls[1] = st.mark - 1
    /\ pc[1] = "idle"
    /\ result[1] # Nil

\* The kind of the error SchemaTest returns for a failure of the step it
\* is at, and the index of the migration the error names (-1 for none).
STStepErrors ==
    CASE st.pc = "open" -> {<<"Config", -1>>, <<"Connect", -1>>}
      [] st.pc = "noTables" -> {<<"CheckTables", -1>>,
                                <<"NonEmptyDatabase", -1>>}
      [] st.pc = "setup" -> {<<"SetupFailed", -1>>}
      [] st.pc = "migrate" -> {<<"MigrateFailed", st.to>>}
      [] st.pc = "rollback" -> {<<"RollbackFailed", st.through>>}
      [] st.pc = "again" -> {<<"RemigrateFailed", st.to>>}
      [] st.pc = "dumpRollback" -> {<<"Dump", -1>>,
                                    <<"RollbackMismatch", st.through>>}
      [] st.pc = "dumpAgain" -> {<<"Dump", -1>>,
                                 <<"RemigrateMismatch", st.to>>}
      [] OTHER -> {<<"Dump", -1>>}

\* SchemaTest ends in this step with an error.
STFails == st.pc # "done" /\ st'.pc = "done" /\ st'.err # Nil

\* A failed step ends SchemaTest at once, with nothing done in between and
\* the database untouched; and nothing happens once SchemaTest has ended.
AbortsAtOnce ==
    /\ [][STCallFailed
          => /\ st'.pc = "done"
             /\ st'.err # Nil
             /\ UNCHANGED <<tableExists, ledger, schema, calls>>
             /\ st'.dumps = st.dumps]_vars
    /\ [][(\/ /\ Len(st'.log) = Len(st.log) + 1
                /\ st'.log[Len(st'.log)].before
                      # st'.log[Len(st'.log)].rolledBack
             \/ /\ Len(st'.relog) = Len(st.relog) + 1
                /\ st'.relog[Len(st'.relog)].after
                      # st'.relog[Len(st'.relog)].again)
          => st'.pc = "done" /\ st'.err # Nil]_vars
    /\ [][STFails
          => /\ UNCHANGED <<tableExists, ledger, schema, calls, pc>>
             /\ st'.dumps <= st.dumps + 1
             /\ st'.dumps = st.dumps + 1 => st.pc \in STDumpSites]_vars
    /\ [][st.pc = "done" => UNCHANGED vars]_vars

C32_AbortOnFirstFailure ==
    /\ AbortsAtOnce
    /\ [][STFails
          => /\ <<st'.err.kind, st'.err.index>> \in STStepErrors
             /\ st'.err.index \in -1..(Len(migrations) - 1)]_vars

\* The list is empty: the Rollback of phase 1 has returned that migration
\* 0 is not applied, and SchemaTest has ended in the panic of the read of
\* allMigrations[0].Name for the message, not with an error.
C32_Witness ==
    /\ st.pc = "done"
    /\ st.err = Err("panic", 0, "", "")
    /\ migrations = <<>>
    /\ op[1] = [name |-> "Rollback", len |-> 0, through |-> 0]
    /\ result[1] = Err("NotApplied", 0, "", "")
    /\ st.dumps = 2

(***************************************************************************)
(* C33. Dump determinism: two invocations of the dumper on the same        *)
(* logical schema return equal output; the input of the dumper that could  *)
(* differ between invocations, the restrict key, is pinned to a fixed      *)
(* value, so that two dumps SchemaTest compares differ only when the       *)
(* schemas dumped differ.                                                  *)
(***************************************************************************)
\* The dumps SchemaTest holds or has compared.
DumpsTaken ==
    ({st.before, st.after} \ {NoDump})
        \cup {st.log[n].before : n \in 1..Len(st.log)}
        \cup {st.log[n].rolledBack : n \in 1..Len(st.log)}
        \cup {st.relog[n].after : n \in 1..Len(st.relog)}
        \cup {st.relog[n].again : n \in 1..Len(st.relog)}

\* The logical schema a dump was taken of.
Dumped(d) == <<d.schema, d.table>>

WaitAfter(n) == IF 2 ^ (n - 1) > 30 THEN 30 ELSE 2 ^ (n - 1)

\* The goroutine has returned from its loop.
LeftLoop == ln.pc \in {"deferred", "closing", "exited"}

C34_ListenerBackoff ==
    /\ [](/\ Len(ln.waits) = ln.fails
          /\ \A n \in 1..Len(ln.waits) : ln.waits[n] = WaitAfter(n)
          /\ ln.backoff \in 1..30
          /\ ln.pc = "backoff" => ln.backoff = WaitAfter(ln.fails)
          /\ ln.pc = "select" => ln.backoff = 1 /\ ln.fails = 0)
    /\ [][(ln.pc = "rebuild" /\ ln'.pc = "select")
          => ln'.backoff = 1 /\ ln'.fails = 0]_vars
    /\ [][(ln.pc = "backoff" /\ ln.ctxDone /\ ln'.pc # "backoff")
          => /\ ln'.pc = "deferred"
             /\ ln'.path = "ctxBackoff"
             /\ ln'.fails = ln.fails
             /\ ln'.rebuilt = ln.rebuilt]_vars
    /\ [][LeftLoop
          => /\ LeftLoop'
             /\ ln'.fails = ln.fails
             /\ ln'.rebuilt = ln.rebuilt
             /\ ln'.waits = ln.waits]_vars

\* After one listener was rebuilt, the next rebuild has failed seven times
\* in a row, and the context was cancelled during the seventh wait.
C34_Witness ==
    /\ ln.pc = "exited"
    /\ ln.path = "ctxBackoff"
    /\ ln.rebuilt = 1
    /\ ln.waits = <<1, 2, 4, 8, 16, 30, 30>>
    /\ ln.backoff = 30

(***************************************************************************)
(* C35. Index safety in the engine: for every content of the ledger and    *)
(* every declared list, every access to the list made by verifyMigrations,  *)
(* migrateOne and rollbackOne uses an index j with 0 <= j < len(list); and *)
(* rollbackOne reaches migrations[firstUnappliedIndex - 1] only with       *)
(* firstUnappliedIndex >= 1.                                               *)
(***************************************************************************)
\* The reads of the ledger the verifier of p can make in this state.
ReadsOf(p) ==
    {[rows |-> SelectOrdered(ledger), errAt |-> f] :
        f \in ReadFaults(Cardinality(ledger))}

\* The indices at which migrateOne or rollbackOne reads the list after a
\* verifier that returned v.
StepReads(p, v) ==
    IF v.err # Nil
    THEN {}
    ELSE IF op[p].name = "Migrate"
    THEN IF v.first >= Len(ListOf(p)) THEN {} ELSE {v.first}
    ELSE IF targetCheck(op[p].through, v.first) # Nil
    THEN {}
    ELSE {v.first - 1}

\* The indices at which the statement p is at reads the list.
ListReads(p) ==
    CASE pc[p] = "verify" ->
           UNION {verifyReads(q, ListOf(p))
                     \cup StepReads(p, verifyMigrations(q, ListOf(p))) :
                  q \in ReadsOf(p)}
      [] pc[p] \in {"apply", "record", "reverse", "delete"} -> {StepIndex(p)}
      [] OTHER -> {}

C35_EngineIndexSafety ==
    \A p \in callers :
        /\ ListReads(p) \subseteq 0..(Len(ListOf(p)) - 1)
        /\ pc[p] \in {"reverse", "delete", "commitReverse"} => first[p] >= 1
        /\ (pc[p] = "verify" /\ op[p].name = "Rollback")
           => \A q \in ReadsOf(p) :
                 LET v == verifyMigrations(q, ListOf(p))
                 IN  StepReads(p, v) # {} => v.first >= 1

\* Rollback through 0 is at its verifier on a ledger that records
\* migration 0 and an index past the end of the list: the verifier reads
\* migrations[0] for the first row and does not read the list for the
\* second.
C35_Witness ==
    /\ pc[1] = "verify"
    /\ op[1].name = "Rollback"
    /\ op[1].through = 0
    /\ \E r \in ledger : r.index >= Len(ListOf(1))
    /\ \E r \in ledger : r.index = 0 /\ r.name = At(migrations, 0).Name
    /\ verifyReads([rows |-> SelectOrdered(ledger), errAt |-> -1],
                   ListOf(1)) = {0}

(***************************************************************************)
(* C36. SchemaTest index safety: for every length N >= 0 of the list, the  *)
(* empty list included, every access to the list made by SchemaTest and    *)
(* migrateAndRollback (the slice list[:i+1], the read of list[i].Name for  *)
(* an error message) uses an index within the list, so that SchemaTest     *)
(* always ends by returning nil or an error value.                         *)
(***************************************************************************)
\* SchemaTest has ended in the panic of an index out of range.
STPanicked == st.pc = "done" /\ st.err.kind = "panic"

C36_SchemaTestIndexSafety ==
    /\ st.pc \in {"migrate", "again"} => st.to + 1 \in 0..Len(migrations)
    /\ ~STPanicked
    /\ SchemaTestReturned
       => /\ st.err.index \in -1..(Len(migrations) - 1)
          /\ st.err.index >= 0
             => st.err.name = migrations[st.err.index + 1].Name

\* The list is empty and the Migrate of phase 1 has failed in the
\* database: the message reads allMigrations[-1].Name.
C36_Witness ==
    /\ STPanicked
    /\ migrations = <<>>
    /\ st.err.index = -1
    /\ st.phase = 1
    /\ op[1] = [name |-> "Migrate", len |-> 0, through |-> -1]
    /\ result[1].kind \in DatabaseErrors

(***************************************************************************)
(* C37. Concurrent first use: when two processes call Migrate at the same  *)
(* time on a database that has no migration table yet, then under every    *)
(* interleaving of the check for the table and the CREATE TABLE both calls *)
(* complete without an error of the creation of the table, and the table   *)
(* is created exactly once.                                                *)
(***************************************************************************)
\* Both callers have called Migrate on a database without the table, each
\* before the other's call returned.
ConcurrentFirstUse ==
    /\ callers = Callers
    /\ \A p \in Callers :
          /\ op[p].name = "Migrate"
          /\ ~start[p].table
          /\ calls[p] = MaxConcurrentCalls - 1

\* The CREATE TABLE of p is refused because the table exists.
CreateRefused(p) ==
    \/ pc[p] = "create" /\ tableExists
    \/ pc[p] = "idle" /\ result[p] = AlreadyExists

C37_ConcurrentFirstUse ==
    /\ [](ConcurrentFirstUse => \A p \in Callers : ~CreateRefused(p))
    /\ [][ConcurrentFirstUse
          => /\ tableExists => tableExists'
             /\ (~tableExists /\ tableExists')
                => \E p \in Callers : pc[p] = "create" /\ pc'[p] = "begin"]_vars

\* Both callers found no table; the first created it, applied the list and
\* returned nil, and the second was refused by CREATE TABLE and applied
\* nothing.
C37_Witness ==
    /\ ConcurrentFirstUse
    /\ Returned(1, "Migrate")
    /\ Returned(2, "Migrate")
    /\ result[1] = Nil
    /\ result[2] = AlreadyExists
    /\ ran[2] = <<>>
    /\ ledger = PrefixLedger(migrations, op[1].len)
    /\ op[1].len = MaxMigrations

(***************************************************************************)
(* C38. Rollback floor under concurrency: with Rollback calls running      *)
(* concurrently on the same database and list, a call with the target      *)
(* `through` never reverses a migration whose index is below `through`;    *)
(* when another process has removed index `through` already, the call      *)
(* fails with NotApplied and does not reverse a lower index.               *)
(***************************************************************************)
\* Index `through` of the Rollback of p is not in the ledger.
TargetRemoved(p) ==
    /\ op[p].name = "Rollback"
    /\ op[p].through >= 0
    /\ op[p].through \notin LedgerIndices(ledger)

\* The rollbackOne of p is past its checks.
Reversing(p) == pc[p] \in {"reverse", "delete", "commitReverse"}

C38_RollbackFloor ==
    /\ [](\A p \in callers :
             op[p].name = "Rollback"
             => /\ \A n \in 1..Len(ran[p]) :
                      /\ ran[p][n][1] = "reverse"
                      /\ ran[p][n][2] >= op[p].through
                /\ Reversing(p)
                   => /\ StepIndex(p) >= op[p].through
                      /\ ~TargetRemoved(p))
    /\ [][\A p \in callers :
             (TargetRemoved(p) /\ pc[p] = "verify" /\ pc'[p] # "verify")
             => /\ pc'[p] = "idle"
                /\ result'[p] = Err("NotApplied", op[p].through, "", "")
                      \/ result'[p].kind = "FetchMigrations"
                /\ ledger' = ledger
                /\ schema' = schema
                /\ ran' = ran]_vars

\* Both callers roll back through 1 from three applied migrations: caller 1
\* reversed migration 2, caller 2 then reversed migration 1, and caller 1
\* was refused; migration 0 stays applied.
C38_Witness ==
    /\ Returned(1, "Rollback")
    /\ Returned(2, "Rollback")
    /\ op[1].through = 1
    /\ op[2].through = 1
    /\ start[1].ledger = PrefixLedger(migrations, 3)
    /\ ran[1] = <<<<"reverse", 2, "committed">>>>
    /\ ran[2] = <<<<"reverse", 1, "committed">>>>
    /\ result[1] = Err("NotApplied", 1, "", "")
    /\ result[2] = Nil
    /\ ledger = PrefixLedger(migrations, 1)
    /\ schema = {0}

(***************************************************************************)
(* C39. Liveness under mixed concurrency: when one process runs Migrate    *)
(* and another runs Rollback(through) at the same time on the same         *)
(* database and list, every forward and reverse step succeeding and both   *)
(* processes being scheduled weakly fairly, both calls return in the end,  *)
(* unless the two calls undo each other's steps for ever: the number of    *)
(* applied migrations then rises and falls without end.                    *)
(***************************************************************************)
\* p is in a call.
InCall(p) == pc[p] # "idle"

\* Migrate applies a migration and Rollback reverses it, again and again.
UndoEachOther ==
    \E k \in 0..(MaxMigrations - 1) :
        /\ []<>(Cardinality(ledger) = k)
        /\ []<>(Cardinality(ledger) = k + 1)

C39_MixedLiveness ==
    (\A p \in Callers : InCall(p) ~> ~InCall(p)) \/ UndoEachOther

\* Migrate and Rollback through 0 started with the whole list applied;
\* Rollback has reversed the last migration and is between two steps, and
\* Migrate is applying that migration again.
C39_Witness ==
    /\ pc[1] = "apply"
    /\ first[1] = MaxMigrations - 1
    /\ op[1] = [name |-> "Migrate", len |-> MaxMigrations, through |-> -1]
    /\ start[1].ledger = PrefixLedger(migrations, MaxMigrations)
    /\ op[2] = [name |-> "Rollback", len |-> MaxMigrations, through |-> 0]
    /\ start[2].ledger = PrefixLedger(migrations, MaxMigrations)
    /\ pc[2] = "begin"
    /\ ledger = PrefixLedger(migrations, MaxMigrations - 1)

\* The statement as made: both calls return in the end.
C39_BothReturn == \A p \in Callers : InCall(p) ~> ~InCall(p)

=============================================================================
